---------------------------- MODULE Spec2Model ----------------------------
(***************************************************************************)
(* Verification model of the KissBot repository.                           *)
(*                                                                         *)
(* Part 1: the semantic-delta scorer of src/delta-s3-rust/src/lib.rs and   *)
(* the ranking routines of src/delta-s3-rust/src/bin/*.rs.                 *)
(*                                                                         *)
(* Text is a sequence of characters, a character is a one-element string   *)
(* (or a name, for the characters outside ASCII).  The scorer's f64 values *)
(* are modelled as exact rationals [n, d] in lowest terms.                 *)
(***************************************************************************)
EXTENDS Integers, Sequences, FiniteSets, TLC

VARIABLES
  query,      \* the query text handed to semantic_delta_v3
  title,      \* the candidate title handed to semantic_delta_v3
  pc,         \* position of the caller
  res,        \* Some(the values of the last call)
  prev,       \* Some(the values of the call before the last one)
  catalog,    \* the ranker's candidate titles, in catalog order
  workers,    \* the size of the ranker's worker pool
  task,       \* per worker: Some(the position it is computing), or None
  computed,   \* the (position, delta) results, in completion order
  scores,     \* the ranker's scores vector
  ground_truth, \* the title an evaluation expects at rank 1
  a_tokens,   \* the first token sequence handed to a scorer
  b_tokens,   \* the second token sequence handed to a scorer
  cache,      \* the rows of the game_cache table
  now,        \* the clock (Utc::now), in ticks
  bots,       \* the supervisor's BotProcess of each channel
  hub,        \* the supervisor's Option<HubProcess>
  running,    \* the supervisor's running flag
  lock,       \* the holder of the write lock of bots, or "free"
  interactive \* the supervisor runs the interactive CLI (-i)

vars ==
  <<query, title, pc, res, prev, catalog, workers, task, computed, scores,
    ground_truth, a_tokens, b_tokens, cache, now, bots, hub, running, lock,
    interactive>>

\* Option<T>: None, or Some(x)
None == <<>>
Some(x) == <<x>>

---------------------------------------------------------------------------
(* Exact rational arithmetic standing for f64.                             *)

RECURSIVE Gcd(_, _)
Gcd(a, b) == IF b = 0 THEN a ELSE Gcd(b, a % b)

Abs(x) == IF x < 0 THEN -x ELSE x

Rat(n, d) ==
  LET g == Gcd(Abs(n), d)
  IN  [n |-> n \div g, d |-> d \div g]

Zero == [n |-> 0, d |-> 1]
One  == [n |-> 1, d |-> 1]

\* x + y over the least common denominator; adding zero changes nothing
RAdd(x, y) ==
  IF x.n = 0 THEN y
  ELSE IF y.n = 0 THEN x
  ELSE LET g == Gcd(x.d, y.d)
           l == (x.d \div g) * y.d
       IN  Rat(x.n * (l \div x.d) + y.n * (l \div y.d), l)

RNeg(x) == [n |-> -x.n, d |-> x.d]

\* x - y; subtracting zero changes nothing
RSub(x, y) == IF y.n = 0 THEN x ELSE RAdd(x, RNeg(y))

\* x * y, cancelling across the two fractions
RMul(x, y) ==
  IF x.n = 0 \/ y.n = 0 THEN Zero
  ELSE LET g1 == Gcd(Abs(x.n), y.d)
           g2 == Gcd(Abs(y.n), x.d)
       IN  [n |-> (x.n \div g1) * (y.n \div g2),
            d |-> (x.d \div g2) * (y.d \div g1)]

\* x / k for an integer k > 0
RDivInt(x, k) ==
  IF x.n = 0 THEN Zero
  ELSE LET g == Gcd(Abs(x.n), k)
       IN  [n |-> x.n \div g, d |-> x.d * (k \div g)]

\* a/b < c/d for a, c >= 0 and b, d > 0, without forming the cross products
RECURSIVE FracLess(_, _, _, _)
FracLess(a, b, c, d) ==
  LET qa == a \div b
      qc == c \div d
      ra == a % b
      rc == c % d
  IN  IF qa # qc THEN qa < qc
      ELSE IF rc = 0 THEN FALSE
      ELSE IF ra = 0 THEN TRUE
      ELSE FracLess(d, rc, b, ra)

RLess(x, y) ==
  IF x.n < 0 /\ y.n >= 0 THEN TRUE
  ELSE IF x.n >= 0 /\ y.n < 0 THEN FALSE
  ELSE IF x.n < 0 THEN FracLess(-y.n, y.d, -x.n, x.d)
  ELSE FracLess(x.n, x.d, y.n, y.d)

RLeq(x, y) == ~RLess(y, x)

\* f64::NAN: the value of a comparison-less f64
NaN == [n |-> 0, d |-> 0]

is_nan(x) == x.d = 0

\* f64::partial_cmp: no ordering when one side is NaN
partial_cmp(x, y) ==
  IF is_nan(x) \/ is_nan(y) THEN None
  ELSE IF RLess(x, y) THEN Some("Less")
  ELSE IF RLess(y, x) THEN Some("Greater")
  ELSE Some("Equal")

\* f64::min and f64::max on numbers that are never NaN
RMin(x, y) == IF RLess(y, x) THEN y ELSE x
RMax(x, y) == IF RLess(x, y) THEN y ELSE x

---------------------------------------------------------------------------
(* Characters.                                                             *)

AsciiDigits == {"0", "1", "2", "3", "4", "5", "6", "7", "8", "9"}

UpperSeq ==
  <<"A","B","C","D","E","F","G","H","I","J","K","L","M",
    "N","O","P","Q","R","S","T","U","V","W","X","Y","Z","E_ACUTE">>

LowerSeq ==
  <<"a","b","c","d","e","f","g","h","i","j","k","l","m",
    "n","o","p","q","r","s","t","u","v","w","x","y","z","e_acute">>

\* U+0301 COMBINING ACUTE ACCENT: not alphanumeric, two bytes in UTF-8
CombAcute == "comb_acute"

TwoByteChars == {"e_acute", "E_ACUTE", CombAcute}

\* char::is_alphanumeric
is_alphanumeric(c) ==
  \/ c \in AsciiDigits
  \/ \E i \in 1..Len(LowerSeq) : c = LowerSeq[i] \/ c = UpperSeq[i]

\* char::is_ascii_digit
is_ascii_digit(c) == c \in AsciiDigits

\* char::to_lowercase
to_lowercase_char(c) ==
  IF \E i \in 1..Len(UpperSeq) : UpperSeq[i] = c
  THEN LowerSeq[CHOOSE i \in 1..Len(UpperSeq) : UpperSeq[i] = c]
  ELSE c

\* char::len_utf8
len_utf8(c) == IF c \in TwoByteChars THEN 2 ELSE 1

\* str::len: the length in bytes (one per character, one more for each
\* character of two bytes)
byte_len(s) ==
  Len(s) + Cardinality({i \in 1..Len(s) : len_utf8(s[i]) = 2})

\* str::chars().count(): the length in Unicode scalar values
char_count(s) == Len(s)

\* the place of a combining mark that composition has absorbed
Absorbed == "absorbed"

\* unicode_normalization nfc(): canonical composition. A starter followed by
\* its combining mark becomes the composed character and the mark goes.
nfc(s) ==
  LET composes(i) == /\ i >= 1
                     /\ i < Len(s)
                     /\ s[i] \in {"e", "E"}
                     /\ s[i + 1] = CombAcute
      composed == [i \in 1..Len(s) |->
                     IF composes(i)
                       THEN IF s[i] = "e" THEN "e_acute" ELSE "E_ACUTE"
                     ELSE IF composes(i - 1) THEN Absorbed
                     ELSE s[i]]
  IN  SelectSeq(composed, LAMBDA c : c # Absorbed)

\* str::to_lowercase
to_lowercase(s) == [i \in 1..Len(s) |-> to_lowercase_char(s[i])]

---------------------------------------------------------------------------
(* The tables of lib.rs.                                                   *)

ROMAN_NUMERALS ==
  << <<"i">>,
     <<"i","i">>,
     <<"i","i","i">>,
     <<"i","v">>,
     <<"v">>,
     <<"v","i">>,
     <<"v","i","i">>,
     <<"v","i","i","i">>,
     <<"i","x">>,
     <<"x">>,
     <<"x","i">>,
     <<"x","i","i">>,
     <<"x","i","i","i">>,
     <<"x","i","v">>,
     <<"x","v">>,
     <<"x","v","i">>,
     <<"x","v","i","i">>,
     <<"x","v","i","i","i">>,
     <<"x","i","x">>,
     <<"x","x">> >>

ROMAN_TO_ARABIC ==
  << <<<<"i">>, <<"1">>>>,
     <<<<"i","i">>, <<"2">>>>,
     <<<<"i","i","i">>, <<"3">>>>,
     <<<<"i","v">>, <<"4">>>>,
     <<<<"v">>, <<"5">>>>,
     <<<<"v","i">>, <<"6">>>>,
     <<<<"v","i","i">>, <<"7">>>>,
     <<<<"v","i","i","i">>, <<"8">>>>,
     <<<<"i","x">>, <<"9">>>>,
     <<<<"x">>, <<"1","0">>>>,
     <<<<"x","i">>, <<"1","1">>>>,
     <<<<"x","i","i">>, <<"1","2">>>>,
     <<<<"x","i","i","i">>, <<"1","3">>>>,
     <<<<"x","i","v">>, <<"1","4">>>>,
     <<<<"x","v">>, <<"1","5">>>>,
     <<<<"x","v","i">>, <<"1","6">>>>,
     <<<<"x","v","i","i">>, <<"1","7">>>>,
     <<<<"x","v","i","i","i">>, <<"1","8">>>>,
     <<<<"x","i","x">>, <<"1","9">>>>,
     <<<<"x","x">>, <<"2","0">>>> >>

DLC_KEYWORDS ==
  << <<"g","o","t","y">>,
     <<"d","e","f","i","n","i","t","i","v","e">>,
     <<"r","e","m","a","s","t","e","r">>,
     <<"r","e","m","a","s","t","e","r","e","d">>,
     <<"h","d">>,
     <<"e","d","i","t","i","o","n">>,
     <<"d","l","c">>,
     <<"s","e","a","s","o","n">>,
     <<"b","u","n","d","l","e">>,
     <<"t","r","i","l","o","g","y">>,
     <<"c","o","l","l","e","c","t","i","o","n">>,
     <<"e","n","h","a","n","c","e","d">>,
     <<"c","o","m","p","l","e","t","e">>,
     <<"u","l","t","i","m","a","t","e">>,
     <<"d","e","l","u","x","e">>,
     <<"p","r","e","m","i","u","m">>,
     <<"g","o","l","d">> >>

---------------------------------------------------------------------------
(* Normalization.                                                          *)

\* Iterator::any over a slice
SeqAny(s, P(_)) == \E i \in 1..Len(s) : P(s[i])

\* [T]::contains
SeqContains(s, x) == \E i \in 1..Len(s) : s[i] = x

\* str::split(|c| !c.is_alphanumeric()): the pieces between the separators,
\* empty pieces included; piece k lies between separators k - 1 and k, with
\* the start and the end of the text as the outermost separators
split_non_alphanumeric(s) ==
  LET seps == {i \in 1..Len(s) : ~is_alphanumeric(s[i])}
      sep(k) == IF k = 0 THEN 0
                ELSE IF k > Cardinality(seps) THEN Len(s) + 1
                ELSE CHOOSE i \in seps :
                       Cardinality({m \in seps : m < i}) = k - 1
  IN  [k \in 1..(Cardinality(seps) + 1) |->
         SubSeq(s, sep(k - 1) + 1, sep(k) - 1)]

\* the pieces without the filter
split_tokens_keep_empty(s) == split_non_alphanumeric(s)

\* .filter(|s| !s.is_empty()) on the pieces
split_tokens(s) ==
  SelectSeq(split_non_alphanumeric(s), LAMBDA piece : piece # <<>>)

\* should_map_roman looking at the tokens of every length
should_map_roman_any_length(tokens) ==
  SeqAny(tokens,
    LAMBDA t : \/ \A i \in 1..Len(t) : is_ascii_digit(t[i])
               \/ SeqContains(ROMAN_NUMERALS, t))

should_map_roman(tokens) ==
  LET short_tokens == SelectSeq(tokens,
                        LAMBDA t : byte_len(t) >= 1 /\ byte_len(t) <= 4)
  IN  SeqAny(short_tokens,
        LAMBDA t : \/ \A i \in 1..Len(t) : is_ascii_digit(t[i])
                   \/ SeqContains(ROMAN_NUMERALS, t))

\* the inner loop of normalize_v2: the first table entry equal to the token
map_roman_token(token) ==
  IF \E k \in 1..Len(ROMAN_TO_ARABIC) : ROMAN_TO_ARABIC[k][1] = token
  THEN LET k == CHOOSE k \in 1..Len(ROMAN_TO_ARABIC) :
                  /\ ROMAN_TO_ARABIC[k][1] = token
                  /\ \A m \in 1..(k - 1) : ROMAN_TO_ARABIC[m][1] # token
       IN  ROMAN_TO_ARABIC[k][2]
  ELSE token

\* for token in tokens.iter_mut(): the tokens from place i on are replaced
\* in place
RECURSIVE map_roman_tokens(_, _)
map_roman_tokens(tokens, i) ==
  IF i > Len(tokens) THEN tokens
  ELSE map_roman_tokens(
         [tokens EXCEPT ![i] = map_roman_token(tokens[i])], i + 1)

normalize_v2(text) ==
  LET text_lower == to_lowercase(nfc(text))
      tokens == split_tokens(text_lower)
  IN  IF should_map_roman(tokens)
      THEN map_roman_tokens(tokens, 1)
      ELSE tokens

\* [String]::join(sep)
RECURSIVE join(_, _)
join(tokens, sep) ==
  IF tokens = <<>> THEN <<>>
  ELSE IF Len(tokens) = 1 THEN tokens[1]
  ELSE tokens[1] \o sep \o join(Tail(tokens), sep)

\* str::contains(&str)
str_contains(s, pat) ==
  \E i \in 0..(Len(s) - Len(pat)) : SubSeq(s, i + 1, i + Len(pat)) = pat

\* is_dlc_like comparing whole tokens with the keywords
is_dlc_like_exact(tokens) ==
  SeqAny(DLC_KEYWORDS, LAMBDA kw : SeqContains(tokens, kw))

is_dlc_like(tokens) ==
  LET tokens_str == join(tokens, <<" ">>)
  IN  SeqAny(DLC_KEYWORDS, LAMBDA kw : str_contains(tokens_str, kw))

---------------------------------------------------------------------------
(* Jaccard index (with bigrams).                                           *)

\* HashSet<_> collected from a slice
SeqToSet(s) == {s[i] : i \in 1..Len(s)}

\* usize as f64 / usize as f64
Ratio(a, b) == Rat(a, b)

\* make_bigrams joining the two tokens without a separator
make_bigrams_joined(tokens) ==
  {tokens[i] \o tokens[i + 1] : i \in 1..(Len(tokens) - 1)}

make_bigrams(tokens) ==
  {tokens[i] \o <<"_">> \o tokens[i + 1] : i \in 1..(Len(tokens) - 1)}

jaccard_index(tokens_a, tokens_b) ==
  IF tokens_a = <<>> /\ tokens_b = <<>> THEN One
  ELSE IF tokens_a = <<>> \/ tokens_b = <<>> THEN Zero
  ELSE
    LET set_a == SeqToSet(tokens_a)
        set_b == SeqToSet(tokens_b)
        intersection == Cardinality(set_a \cap set_b)
        union == Cardinality(set_a \cup set_b)
        bigrams_a == make_bigrams(tokens_a)
        bigrams_b == make_bigrams(tokens_b)
        bi_intersection == Cardinality(bigrams_a \cap bigrams_b)
        bi_union == Cardinality(bigrams_a \cup bigrams_b)
        total_intersection == intersection + bi_intersection
        total_union == union + bi_union
    IN  IF total_union = 0 THEN Zero
        ELSE Ratio(total_intersection, total_union)

---------------------------------------------------------------------------
(* Levenshtein similarity (symmetric).                                     *)

Min2(a, b) == IF a < b THEN a ELSE b

\* the body of the inner loop: the value of curr_row[j + 1]
\* (index k of the code's rows is index k + 1 here: sequences start at 1)
lev_cell(curr_row, prev_row, ca, b, j) ==
  LET cb == b[j + 1]
      cost == IF ca = cb THEN 0 ELSE 1
  IN  Min2(Min2(curr_row[j + 1] + 1, prev_row[j + 2] + 1),
           prev_row[j + 1] + cost)

\* the inner loop over b.chars(): iteration j appends curr_row[j + 1], so
\* j is the number of cells written so far, less the cell curr_row[0]
RECURSIVE lev_fill_row(_, _, _, _)
lev_fill_row(curr_row, prev_row, ca, b) ==
  IF Len(curr_row) > Len(b) THEN curr_row
  ELSE lev_fill_row(
         Append(curr_row,
                lev_cell(curr_row, prev_row, ca, b, Len(curr_row) - 1)),
         prev_row, ca, b)

\* the outer loop over a.chars(), with the swap of the two rows: iteration i
\* starts from the row whose cell 0 is i (0 at first, then curr_row[0] = i + 1)
RECURSIVE lev_rows(_, _, _)
lev_rows(prev_row, a, b) ==
  IF prev_row[1] >= Len(a) THEN prev_row
  ELSE lev_rows(
         lev_fill_row(<<prev_row[1] + 1>>, prev_row, a[prev_row[1] + 1], b),
         a, b)

levenshtein_distance(a, b) ==
  LET len_a == char_count(a)
      len_b == char_count(b)
  IN  IF len_a = 0 THEN len_b
      ELSE IF len_b = 0 THEN len_a
      ELSE lev_rows([k \in 1..(len_b + 1) |-> k - 1], a, b)[len_b + 1]

levenshtein_sim(a, b) ==
  LET dist == levenshtein_distance(a, b)
      la == byte_len(a)
      lb == byte_len(b)
      max_len == IF la > lb THEN la ELSE lb
  IN  IF max_len = 0 THEN One
      ELSE RSub(One, Ratio(dist, max_len))

\* Iterator::fold(0.0, f64::max) over a sequence of similarities: the
\* greatest of 0.0 and the similarities
fold_max(sims) ==
  LET candidates == {Zero} \cup {sims[k] : k \in 1..Len(sims)}
  IN  CHOOSE best \in candidates : \A sim \in candidates : RLeq(sim, best)

\* Iterator::sum::<f64>() over the first k elements of s
RECURSIVE sum_f64(_, _)
sum_f64(s, k) ==
  IF k = 0 THEN Zero
  ELSE RAdd(sum_f64(s, k - 1), s[k])

\* l_symmetric returning the forward average alone
l_symmetric_forward(tokens_a, tokens_b) ==
  IF tokens_a = <<>> /\ tokens_b = <<>> THEN One
  ELSE IF tokens_a = <<>> \/ tokens_b = <<>> THEN Zero
  ELSE
    LET fwd_scores ==
          [i \in 1..Len(tokens_a) |->
             fold_max([k \in 1..Len(tokens_b) |->
                         levenshtein_sim(tokens_a[i], tokens_b[k])])]
    IN  RDivInt(sum_f64(fwd_scores, Len(fwd_scores)), Len(fwd_scores))

l_symmetric(tokens_a, tokens_b) ==
  IF tokens_a = <<>> /\ tokens_b = <<>> THEN One
  ELSE IF tokens_a = <<>> \/ tokens_b = <<>> THEN Zero
  ELSE
    LET fwd_scores ==
          [i \in 1..Len(tokens_a) |->
             fold_max([k \in 1..Len(tokens_b) |->
                         levenshtein_sim(tokens_a[i], tokens_b[k])])]
        bwd_scores ==
          [i \in 1..Len(tokens_b) |->
             fold_max([k \in 1..Len(tokens_a) |->
                         levenshtein_sim(tokens_a[k], tokens_b[i])])]
        fwd_avg == RDivInt(sum_f64(fwd_scores, Len(fwd_scores)),
                           Len(fwd_scores))
        bwd_avg == RDivInt(sum_f64(bwd_scores, Len(bwd_scores)),
                           Len(bwd_scores))
    IN  RDivInt(RAdd(fwd_avg, bwd_avg), 2)

---------------------------------------------------------------------------
(* Anchor ratio.                                                           *)

AnchorChars == {"+", "-", "#", ":", "."}

compute_anchor_ratio(q_concat, t_concat) ==
  LET q_anchors == {c \in SeqToSet(q_concat) : c \in AnchorChars}
      t_anchors == {c \in SeqToSet(t_concat) : c \in AnchorChars}
      intersection == Cardinality(q_anchors \cap t_anchors)
      union == Cardinality(q_anchors \cup t_anchors)
  IN  IF q_anchors = {} /\ t_anchors = {} THEN One
      ELSE IF union = 0 THEN One
      ELSE Ratio(intersection, union)

---------------------------------------------------------------------------
(* TITLE mode delta.                                                       *)

Alpha == Rat(25, 100)
Beta  == Rat(35, 100)
\* no Jaccard cap: the overlap may reach 1.0
JCapNone == Rat(1, 1)
\* a Jaccard cap of 0.60 in place of 0.80
JCapSentence == Rat(60, 100)
JCap  == Rat(80, 100)
WJ    == Rat(40, 100)
WL    == Rat(40, 100)
WR    == Rat(20, 100)
DlcPenalty == Rat(105, 100)

\* apply_dlc_debias without the penalty
apply_dlc_debias_off(delta, q_tokens, t_tokens) == delta

apply_dlc_debias(delta, q_tokens, t_tokens) ==
  IF is_dlc_like(t_tokens) /\ ~is_dlc_like(q_tokens)
  THEN RMin(RMul(delta, DlcPenalty), One)
  ELSE delta

\* mu_space without the test of the title's length
mu_space_any_title(j, q_tokens, t_tokens) ==
  IF Len(q_tokens) = 1
  THEN RMul(Alpha, RSub(One, j))
  ELSE Zero

\* mu_space: the single-token correction of the Jaccard index
mu_space(j, q_tokens, t_tokens) ==
  IF Len(q_tokens) = 1 /\ Len(t_tokens) > 1
  THEN RMul(Alpha, RSub(One, j))
  ELSE Zero

\* the early return with -1.0 for "no score"
title_early_sentinel(q_tokens, t_tokens) ==
  [q_tokens |-> q_tokens, t_tokens |-> t_tokens, early |-> TRUE,
   j |-> Zero, l |-> Zero, r |-> Zero, j_capped |-> Zero,
   mu_anchor |-> Zero, clamped |-> One, debiased |-> One,
   delta |-> RNeg(One)]

\* the early return with f64::NAN for "no score"
title_early_nan(q_tokens, t_tokens) ==
  [q_tokens |-> q_tokens, t_tokens |-> t_tokens, early |-> TRUE,
   j |-> Zero, l |-> Zero, r |-> Zero, j_capped |-> Zero,
   mu_anchor |-> Zero, clamped |-> One, debiased |-> One, delta |-> NaN]

\* the early return for an empty token sequence
title_early(q_tokens, t_tokens) ==
  [q_tokens |-> q_tokens, t_tokens |-> t_tokens, early |-> TRUE,
   j |-> Zero, l |-> Zero, r |-> Zero, j_capped |-> Zero,
   mu_anchor |-> Zero, clamped |-> One, debiased |-> One, delta |-> One]

\* the values semantic_delta_title computes for two non-empty token
\* sequences, in the order it computes them
title_combine(q_tokens, t_tokens) ==
  LET j0 == jaccard_index(q_tokens, t_tokens)
      l == l_symmetric(q_tokens, t_tokens)
      q_concat == join(q_tokens, <<>>)
      t_concat == join(t_tokens, <<>>)
      r == compute_anchor_ratio(q_concat, t_concat)
      mu_anchor == RMul(Beta, RSub(One, r))
      j1 == RMin(RAdd(j0, mu_space(j0, q_tokens, t_tokens)), One)
      j2 == RMin(j1, JCap)
      d0 == RAdd(RAdd(RMul(WJ, RSub(One, j2)),
                      RMul(WL, RSub(One, l))),
                 RMul(WR, RSub(One, r)))
      d1 == RMin(RAdd(d0, mu_anchor), One)
      d2 == apply_dlc_debias(d1, q_tokens, t_tokens)
  IN  [q_tokens |-> q_tokens, t_tokens |-> t_tokens, early |-> FALSE,
       j |-> j0, l |-> l, r |-> r, j_capped |-> j2,
       mu_anchor |-> mu_anchor, clamped |-> d1, debiased |-> d2,
       delta |-> RMin(RMax(d2, Zero), One)]

\* semantic_delta_title returning early only when both sequences are empty
delta_title_steps_both(q, t) ==
  LET q_tokens == normalize_v2(q)
      t_tokens == normalize_v2(t)
  IN  IF q_tokens = <<>> /\ t_tokens = <<>>
      THEN title_early(q_tokens, t_tokens)
      ELSE title_combine(q_tokens, t_tokens)

\* semantic_delta_title with the values of its local variables
delta_title_steps(q, t) ==
  LET q_tokens == normalize_v2(q)
      t_tokens == normalize_v2(t)
  IN  IF q_tokens = <<>> \/ t_tokens = <<>>
      THEN title_early(q_tokens, t_tokens)
      ELSE title_combine(q_tokens, t_tokens)

semantic_delta_title(q, t) == delta_title_steps(q, t).delta

semantic_delta_v3(q, t) == semantic_delta_title(q, t)

---------------------------------------------------------------------------
(* Inputs of the scorer: texts made of words joined by a space.            *)

MaxQueryWords == 2
MaxTitleWords == 2

Words ==
  { <<"d","o","o","m">>,
    <<"H","D","R">>,
    <<"I","I">>,
    <<"2">>,
    <<"e","comb_acute">> }

\* the texts of exactly k words of W
RECURSIVE TextsOf(_, _)
TextsOf(W, k) ==
  IF k = 0 THEN { <<>> }
  ELSE IF k = 1 THEN W
  ELSE { t \o <<" ">> \o w : t \in TextsOf(W, k - 1), w \in W }

TextsUpTo(W, max) == UNION { TextsOf(W, k) : k \in 0..max }

\* texts without any alphanumeric character
SymbolTexts == { <<"-">>, <<" ", "!", "comb_acute">> }

---------------------------------------------------------------------------
(* The caller of the scorer: one semantic_delta_v3(query, title) call,     *)
(* and a second call with another title for the same query.                *)

IdleRanker ==
  /\ catalog = <<>>
  /\ workers = 0
  /\ task = <<>>
  /\ computed = <<>>
  /\ scores = <<>>
  /\ ground_truth = <<>>

ranker_vars == <<catalog, workers, task, computed, scores, ground_truth>>

\* no token sequence is being measured, no cache has been opened and no
\* supervisor has been started
IdleRest ==
  /\ a_tokens = <<>>
  /\ b_tokens = <<>>
  /\ cache = {}
  /\ now = 0
  /\ bots = <<>>
  /\ hub = None
  /\ running = FALSE
  /\ lock = "free"
  /\ interactive = FALSE

rest_vars ==
  <<a_tokens, b_tokens, cache, now, bots, hub, running, lock, interactive>>

\* the variables the scorer's callers leave alone
idle_vars == <<ranker_vars, rest_vars>>

Idle == IdleRanker /\ IdleRest

Init ==
  /\ query \in SymbolTexts \cup TextsUpTo(Words, MaxQueryWords)
  /\ title \in SymbolTexts \cup TextsUpTo(Words, MaxTitleWords)
  /\ pc = "input"
  /\ res = None
  /\ prev = None
  /\ Idle

\* let delta = semantic_delta_v3(query, title)
Score ==
  /\ pc = "input"
  /\ res' = Some(delta_title_steps(query, title))
  /\ pc' = "scored"
  /\ UNCHANGED <<query, title, prev>>
  /\ UNCHANGED idle_vars

Next == Score

Spec == Init /\ [][Next]_vars

---------------------------------------------------------------------------
(* tests::test_dlc_debias: a title, then the same title with an edition    *)
(* keyword appended, scored against the same query.                        *)

MaxEditionQueryWords == 2
MaxBaseTitleWords == 3

EditionQueryWords == { <<"b","o","l","d">>, <<"z","z">> }

EditionTitleWords == EditionQueryWords \cup { <<"y","y">> }

InitEdition ==
  /\ query \in TextsUpTo(EditionQueryWords, MaxEditionQueryWords)
  /\ title \in TextsUpTo(EditionTitleWords, MaxBaseTitleWords)
  /\ pc = "input"
  /\ res = None
  /\ prev = None
  /\ Idle

AppendEdition ==
  /\ pc = "scored"
  /\ prev = None
  /\ \E k \in 1..Len(DLC_KEYWORDS) :
       title' = title \o <<" ">> \o DLC_KEYWORDS[k]
  /\ prev' = Some([title |-> title, res |-> res[1]])
  /\ res' = None
  /\ pc' = "input"
  /\ UNCHANGED query
  /\ UNCHANGED idle_vars

NextEdition == Score \/ AppendEdition

SpecEdition == InitEdition /\ [][NextEdition]_vars

---------------------------------------------------------------------------
(* tests::test_roman_numeral: "w n" against "W R".                         *)

\* base words, lower-cased and as they are written in a title
BaseWords ==
  { <<<<"d","o","o","m">>, <<"D","O","O","M">>>>,
    <<<<"e_acute","r","a">>, <<"E","comb_acute","R","A">>>>,
    <<<<"m","i","x">>, <<"M","i","x">>>>,
    <<<<"v">>, <<"V">>>> }

\* i32::to_string for 1..20
Arabic(n) == ROMAN_TO_ARABIC[n][2]

\* the roman numeral of n as a title writes it: in capitals
RomanUpper(n) ==
  [i \in 1..Len(ROMAN_NUMERALS[n]) |->
     UpperSeq[CHOOSE k \in 1..Len(LowerSeq) : LowerSeq[k] = ROMAN_NUMERALS[n][i]]]

InitNumeral ==
  /\ \E w \in BaseWords, n \in 1..Len(ROMAN_TO_ARABIC) :
       /\ query = w[1] \o <<" ">> \o Arabic(n)
       /\ title = w[2] \o <<" ">> \o RomanUpper(n)
  /\ pc = "input"
  /\ res = None
  /\ prev = None
  /\ Idle

SpecNumeral == InitNumeral /\ [][Next]_vars

---------------------------------------------------------------------------
(* Two titles with the same words and different punctuation, scored        *)
(* against the same punctuated query.                                      *)

AnchorWords == { <<"h","a","l","f">>, <<"l","i","f","e">>, <<"2">> }

Punctuation == AnchorChars \cup { " " }

InitAnchor ==
  /\ \E w1 \in AnchorWords, w2 \in AnchorWords, a \in AnchorChars :
       /\ query = w1 \o <<a>> \o w2
       /\ title = query
  /\ pc = "input"
  /\ res = None
  /\ prev = None
  /\ Idle

\* the second title: every punctuation character replaced by c
Repunctuate ==
  /\ pc = "scored"
  /\ prev = None
  /\ \E c \in Punctuation :
       title' = [i \in 1..Len(title) |->
                   IF title[i] \in Punctuation THEN c ELSE title[i]]
  /\ prev' = Some([title |-> title, res |-> res[1]])
  /\ res' = None
  /\ pc' = "input"
  /\ UNCHANGED query
  /\ UNCHANGED idle_vars

NextAnchor == Score \/ Repunctuate

SpecAnchor == InitAnchor /\ [][NextAnchor]_vars

---------------------------------------------------------------------------
(* The ranking of a catalog for one query: the map over all_titles, on one *)
(* thread (benchmark_full.rs) or on a pool of workers                      *)
(* (benchmark_gpu_vs_rust.rs), the collect into the scores vector, and the *)
(* sort.  An entry of scores is the pair <<idx, delta>>, idx from 0.       *)

MaxCatalog == 3
MaxWorkers == 2

RankQueries == { <<"d","o","o","m"," ","2">> }

RankTitles ==
  { <<"d","o","o","m">>,
    <<"D","O","O","M">>,
    <<"D","o","o","m"," ","I","I">> }

Catalogs == UNION { [1..n -> RankTitles] : n \in 0..MaxCatalog }

\* the positions no worker has taken yet
Unclaimed ==
  { idx \in 0..(Len(catalog) - 1) :
      /\ \A k \in 1..Len(computed) : computed[k][1] # idx
      /\ \A w \in 1..workers : task[w] # Some(idx) }

\* |a, b| a.1.partial_cmp(&b.1).unwrap() == Ordering::Less or Equal
is_less_or_equal(a, b) ==
  partial_cmp(a[2], b[2]) \in {Some("Less"), Some("Equal")}

\* |a, b| a.1.partial_cmp(&b.1).unwrap() == Ordering::Less
is_less(a, b) == partial_cmp(a[2], b[2]) = Some("Less")

\* the unwrap of the comparator panics: the sort of two or more elements
\* compares every element with another one at least once, and partial_cmp
\* has no ordering for a NaN
unwrap_panics(v) ==
  /\ Len(v) >= 2
  /\ \E i \in 1..Len(v) : is_nan(v[i][2])

\* slice::sort_by on a short slice: the element at i moves left past every
\* element it is less than
RECURSIVE insert_tail(_, _)
insert_tail(v, i) ==
  IF i > 1 /\ is_less(v[i], v[i - 1])
  THEN insert_tail([v EXCEPT ![i - 1] = v[i], ![i] = v[i - 1]], i - 1)
  ELSE v

\* slice::sort_by: the elements from k on are inserted one after the other
RECURSIVE insertion_sort(_, _)
insertion_sort(v, k) ==
  IF k > Len(v) THEN v
  ELSE insertion_sort(insert_tail(v, k), k + 1)

\* scores.sort_by(|a, b| a.1.partial_cmp(&b.1).unwrap())
sort_by(v) == insertion_sort(v, 2)

\* a collect that keeps the order in which the results arrived
collect_unordered(results) == results

\* collect() of an indexed parallel iterator: the result of item idx goes to
\* place idx of the vector
collect(results) ==
  [i \in 1..Len(results) |->
     results[CHOOSE k \in 1..Len(results) : results[k][1] = i - 1]]

\* evaluate_query_full: the map on one thread, in catalog order, and the sort
rank_sequential(q, all_titles) ==
  sort_by([i \in 1..Len(all_titles) |->
             <<i - 1, semantic_delta_v3(q, all_titles[i])>>])

InitRank ==
  /\ query \in RankQueries
  /\ catalog \in Catalogs
  /\ workers \in 1..MaxWorkers
  /\ task = [w \in 1..workers |-> None]
  /\ computed = <<>>
  /\ scores = <<>>
  /\ pc = "map"
  /\ title = <<>>
  /\ res = None
  /\ prev = None
  /\ ground_truth = <<>>
  /\ IdleRest

\* a worker takes a position that no worker has taken
Claim(w) ==
  /\ pc = "map"
  /\ task[w] = None
  /\ \E idx \in Unclaimed : task' = [task EXCEPT ![w] = Some(idx)]
  /\ UNCHANGED <<query, title, pc, res, prev, catalog, workers, computed,
                 scores, ground_truth, rest_vars>>

\* the closure |(idx, title)| (idx, semantic_delta_v3(query, title))
Complete(w) ==
  /\ pc = "map"
  /\ task[w] # None
  /\ LET idx == task[w][1]
         delta == semantic_delta_v3(query, catalog[idx + 1])
     IN  computed' = Append(computed, <<idx, delta>>)
  /\ task' = [task EXCEPT ![w] = None]
  /\ UNCHANGED <<query, title, pc, res, prev, catalog, workers, scores,
                 ground_truth, rest_vars>>

\* .collect() once every item is done, then scores.sort_by(..)
Rank ==
  /\ pc = "map"
  /\ Len(computed) = Len(catalog)
  /\ IF unwrap_panics(collect(computed))
     THEN /\ scores' = collect(computed)
          /\ pc' = "panicked"
     ELSE /\ scores' = sort_by(collect(computed))
          /\ pc' = "ranked"
  /\ UNCHANGED <<query, title, res, prev, catalog, workers, task, computed,
                 ground_truth, rest_vars>>

NextRank ==
  \/ \E w \in 1..workers : Claim(w)
  \/ \E w \in 1..workers : Complete(w)
  \/ Rank

SpecRank == InitRank /\ [][NextRank]_vars

---------------------------------------------------------------------------
(* The parallel ranking of the three Counter-Strike titles for the first   *)
(* of the test queries of benchmark_gpu_vs_rust.rs.                        *)

ScenarioTitles ==
  << <<"C","o","u","n","t","e","r","-","S","t","r","i","k","e">>,
     <<"C","o","u","n","t","e","r","-","S","t","r","i","k","e"," ","2">>,
     <<"C","o","u","n","t","e","r","-","S","t","r","i","k","e",":"," ",
       "S","o","u","r","c","e">> >>

\* the three titles, in every order
InitScenario ==
  /\ query = ScenarioTitles[1]
  /\ \E order \in [1..3 -> 1..3] :
       /\ \A i, k \in 1..3 : i # k => order[i] # order[k]
       /\ catalog = [i \in 1..3 |-> ScenarioTitles[order[i]]]
  /\ workers \in 1..MaxWorkers
  /\ task = [w \in 1..workers |-> None]
  /\ computed = <<>>
  /\ scores = <<>>
  /\ pc = "map"
  /\ title = <<>>
  /\ res = None
  /\ prev = None
  /\ ground_truth = <<>>
  /\ IdleRest

SpecScenario == InitScenario /\ [][NextRank]_vars

---------------------------------------------------------------------------
(* The routines that rank a catalog for a query with a known ground truth: *)
(* evaluate_query_full (benchmark_full.rs), evaluate_query (benchmark.rs)  *)
(* and the main of debug_query.rs.  An entry of scores is <<idx, delta>>.  *)

MaxEvalCatalog == 3

EvalQueries == { <<"d","o","o","m">>, <<"-">> }

EvalTitles ==
  { <<"d","o","o","m">>,
    <<"D","O","O","M">>,
    <<"d","o","o","m"," ","2">>,
    <<"-">> }

\* the sample size of evaluate_query
MaxDistractors == 100

\* Iterator::position(|t| t == x), from 0
position(s, x) ==
  IF \E i \in 1..Len(s) : s[i] = x
  THEN Some((CHOOSE i \in 1..Len(s) :
               s[i] = x /\ \A k \in 1..(i - 1) : s[k] # x) - 1)
  ELSE None

\* sort_by(|a, b| b.1.partial_cmp(&a.1).unwrap()): the same sort with the
\* comparison turned round, which is the sort of the negated deltas
sort_by_desc(v) ==
  LET negated(w) == [i \in 1..Len(w) |-> <<w[i][1], RNeg(w[i][2])>>]
  IN  negated(sort_by(negated(v)))

\* .map(|idx| (idx, semantic_delta_v3(q, &all_titles[idx]))).collect(): the
\* (idx, delta) pairs of the candidates at the positions idxs, in that order
RECURSIVE score_candidates(_, _, _)
score_candidates(q, all_titles, idxs) ==
  IF idxs = <<>> THEN <<>>
  ELSE << <<Head(idxs), semantic_delta_v3(q, all_titles[Head(idxs) + 1])>> >>
         \o score_candidates(q, all_titles, Tail(idxs))

InitEvaluate ==
  /\ query \in EvalQueries
  /\ catalog \in UNION { [1..n -> EvalTitles] : n \in 0..MaxEvalCatalog }
  /\ ground_truth \in EvalTitles
  /\ scores = <<>>
  /\ workers = 0
  /\ task = <<>>
  /\ computed = <<>>
  /\ pc = "input"
  /\ title = <<>>
  /\ res = None
  /\ prev = None
  /\ IdleRest

\* a routine that scores the candidates at idxs, sorts them (debug_query
\* with the comparison b against a, the benchmarks with a against b) and
\* reports whether the first entry is the ground truth
Evaluated(routine, idxs) ==
  LET gt_idx == position(catalog, ground_truth)
      mapped == score_candidates(query, catalog, idxs)
  IN  IF gt_idx = None
      THEN /\ scores' = <<>>
           /\ res' = Some([routine |-> routine, gt_idx |-> None,
                           rank_1 |-> FALSE])
           /\ pc' = "evaluated"
      ELSE IF unwrap_panics(mapped)
      THEN /\ scores' = mapped
           /\ res' = None
           /\ pc' = "panicked"
      ELSE /\ scores' = IF routine = "debug_query"
                         THEN sort_by_desc(mapped)
                         ELSE sort_by(mapped)
           /\ res' = Some([routine |-> routine, gt_idx |-> gt_idx,
                           rank_1 |-> scores'[1][1] = gt_idx[1]])
           /\ pc' = "evaluated"

\* evaluate_query_full(query_data, all_titles)
EvaluateQueryFull ==
  /\ pc = "input"
  /\ Evaluated("evaluate_query_full",
               [i \in 1..Len(catalog) |-> i - 1])
  /\ UNCHANGED <<query, title, prev, catalog, workers, task, computed,
                 ground_truth, rest_vars>>

\* evaluate_query(query_data, all_titles): the ground truth first, then the
\* sampled distractors in the order the random generator gives them
EvaluateQuery ==
  /\ pc = "input"
  /\ LET gt_idx == position(catalog, ground_truth)
         others == IF gt_idx = None THEN {}
                   ELSE (0..(Len(catalog) - 1)) \ {gt_idx[1]}
         amount == Min2(MaxDistractors, Cardinality(others))
     IN  \E distractors \in [1..amount -> others] :
           /\ \A i, k \in 1..amount :
                i # k => distractors[i] # distractors[k]
           /\ Evaluated("evaluate_query",
                        IF gt_idx = None THEN <<>>
                        ELSE <<gt_idx[1]>> \o distractors)
  /\ UNCHANGED <<query, title, prev, catalog, workers, task, computed,
                 ground_truth, rest_vars>>

\* debug_query's main from "Find GT index" on: all titles, sorted with the
\* comparison b against a, PASS when the ground truth stands first
DebugQuery ==
  /\ pc = "input"
  /\ Evaluated("debug_query",
               [i \in 1..Len(catalog) |-> i - 1])
  /\ UNCHANGED <<query, title, prev, catalog, workers, task, computed,
                 ground_truth, rest_vars>>

SpecEvaluate ==
  InitEvaluate /\ [][EvaluateQueryFull \/ EvaluateQuery \/ DebugQuery]_vars

---------------------------------------------------------------------------
(* The per-token similarity on its own: levenshtein_sim(a, b) for two      *)
(* strings, the empty string included.                                     *)

MaxSimLen == 2

\* the strings of at most MaxSimLen characters, of one byte or of two
SimStrings == UNION { [1..n -> {"a", "b", "e_acute"}] : n \in 0..MaxSimLen }

InitSim ==
  /\ \E s \in SimStrings, t \in SimStrings :
       /\ a_tokens = <<s>>
       /\ b_tokens = <<t>>
  /\ pc = "input"
  /\ res = None
  /\ prev = None
  /\ query = <<>>
  /\ title = <<>>
  /\ IdleRanker
  /\ cache = {}
  /\ now = 0
  /\ bots = <<>>
  /\ hub = None
  /\ running = FALSE
  /\ lock = "free"
  /\ interactive = FALSE

\* levenshtein_sim(a, b), with the distance it computes first
Similarity ==
  /\ pc = "input"
  /\ res' = Some([dist |-> levenshtein_distance(a_tokens[1], b_tokens[1]),
                  sim |-> levenshtein_sim(a_tokens[1], b_tokens[1])])
  /\ pc' = "compared"
  /\ UNCHANGED <<query, title, prev, ranker_vars, rest_vars>>

SpecSim == InitSim /\ [][Similarity]_vars

---------------------------------------------------------------------------
(* The normalizer on its own: normalize_v2(text).                          *)

MaxNormWords == 2

\* words with a numeral of two, five and three characters, numbers of one
\* and five digits, a decomposed accent and a symbol
NormWords ==
  { <<"I","I">>,
    <<"X","V","I","I","I">>,
    <<"M","i","x">>,
    <<"2">>,
    <<"1","2","3","4","5">>,
    <<"E","comb_acute">>,
    <<"-">> }

InitNormalize ==
  /\ query \in TextsUpTo(NormWords, MaxNormWords)
  /\ title = <<>>
  /\ pc = "input"
  /\ res = None
  /\ prev = None
  /\ Idle

\* let tokens = normalize_v2(query)
Normalize ==
  /\ pc = "input"
  /\ res' = Some([tokens |-> normalize_v2(query)])
  /\ pc' = "normalized"
  /\ UNCHANGED <<query, title, prev, idle_vars>>

SpecNormalize == InitNormalize /\ [][Normalize]_vars

---------------------------------------------------------------------------
(* The two token-sequence scorers on their own: jaccard_index and          *)
(* l_symmetric for two token sequences, the empty sequence included.       *)

MaxTokensA == 3
MaxTokensB == 2

\* tokens as normalize_v2 returns them: non-empty, alphanumeric, lower case
PartTokens ==
  { <<"a">>, <<"a","b">>, <<"b","c">>, <<"c">> }

InitParts ==
  /\ a_tokens \in UNION { [1..n -> PartTokens] : n \in 0..MaxTokensA }
  /\ b_tokens \in UNION { [1..n -> PartTokens] : n \in 0..MaxTokensB }
  /\ pc = "input"
  /\ res = None
  /\ prev = None
  /\ query = <<>>
  /\ title = <<>>
  /\ IdleRanker
  /\ cache = {}
  /\ now = 0
  /\ bots = <<>>
  /\ hub = None
  /\ running = FALSE
  /\ lock = "free"
  /\ interactive = FALSE

\* let j = jaccard_index(&a_tokens, &b_tokens)
Jaccard ==
  /\ pc = "input"
  /\ res' = Some([j |-> jaccard_index(a_tokens, b_tokens)])
  /\ pc' = "jaccard"
  /\ UNCHANGED <<query, title, prev, ranker_vars, rest_vars>>

\* let l = l_symmetric(&a_tokens, &b_tokens)
EditSimilarity ==
  /\ pc = "input"
  /\ res' = Some([l |-> l_symmetric(a_tokens, b_tokens)])
  /\ pc' = "l_symmetric"
  /\ UNCHANGED <<query, title, prev, ranker_vars, rest_vars>>

SpecParts == InitParts /\ [][Jaccard \/ EditSimilarity]_vars

---------------------------------------------------------------------------
(* Part 2: the game cache of src/kissbot-game-engine/src/cache/sqlite.rs.  *)
(*                                                                         *)
(* The game_cache table is a set of rows, one per primary key query.  A    *)
(* GameResult is modelled by its name and its year; a JSON text by the     *)
(* value it denotes, <<kind, payload>>.  Time is counted in ticks.         *)

MaxClock == 2
MaxHits == 1
TicksPerDay == 1

Games ==
  { [name |-> <<"C","S","2">>, year |-> Some(2023)],
    [name |-> <<"C","S">>, year |-> None] }

CacheQueries == { <<"c","s">>, <<" ","C","S"," ">>, <<"d">> }

\* str::trim: without the leading and the trailing white space
trim(s) ==
  LET inked == {i \in 1..Len(s) : s[i] # " "}
  IN  IF inked = {} THEN <<>>
      ELSE SubSeq(s, CHOOSE i \in inked : \A k \in inked : i <= k,
                     CHOOSE i \in inked : \A k \in inked : i >= k)

\* normalize_query returning the query as it is
normalize_query_as_is(q) == q

normalize_query(q) == to_lowercase(trim(q))

\* serde_json::to_string(game): a string for the name, a number or null
\* for the year
to_json(game) ==
  [name |-> <<"string", game.name>>,
   year |-> IF game.year = None THEN <<"null">>
            ELSE <<"number", game.year[1]>>]

\* serde_json::from_str with deserialize_year: Int(i) gives Some(i), Null
\* gives None (a year written as a string is never written by to_json)
from_json(json) ==
  [name |-> json.name[2],
   year |-> IF json.year[1] = "number" THEN Some(json.year[2]) ELSE None]

\* get: the row of the normalized query, parsed, or None
cache_get(rows, q) ==
  LET normalized == normalize_query(q)
  IN  IF \E row \in rows : row.query = normalized
      THEN LET row == CHOOSE row \in rows : row.query = normalized
           IN  Some([query |-> normalized,
                     game |-> from_json(row.game_data),
                     alternatives |->
                       IF row.alternatives = None THEN <<>>
                       ELSE [i \in 1..Len(row.alternatives[1]) |->
                               from_json(row.alternatives[1][i])],
                     hit_count |-> row.hit_count,
                     cached_at |-> row.cached_at])
      ELSE None

\* save as a plain INSERT OR REPLACE: the new row starts with no hits
cache_save_fresh(rows, q, game, alternatives, time) ==
  {row \in rows : row.query # to_lowercase(trim(q))} \cup
    { [query |-> to_lowercase(trim(q)),
       game_data |-> to_json(game),
       alternatives |->
         IF alternatives = <<>> THEN None
         ELSE Some([i \in 1..Len(alternatives) |-> to_json(alternatives[i])]),
       hit_count |-> 0,
       cached_at |-> time] }

\* save: INSERT OR REPLACE of the row of the normalized query, keeping the
\* hit_count of the row it replaces
cache_save(rows, q, game, alternatives, time) ==
  LET normalized == normalize_query(q)
      replaced == {row \in rows : row.query = normalized}
      alternatives_json ==
        IF alternatives = <<>> THEN None
        ELSE Some([i \in 1..Len(alternatives) |-> to_json(alternatives[i])])
  IN  (rows \ replaced) \cup
        { [query |-> normalized,
           game_data |-> to_json(game),
           alternatives |-> alternatives_json,
           hit_count |-> IF replaced = {} THEN 0
                         ELSE (CHOOSE row \in replaced : TRUE).hit_count,
           cached_at |-> time] }

\* increment_hit: UPDATE .. SET hit_count = hit_count + 1 WHERE query = ?
cache_increment_hit(rows, q) ==
  { IF row.query = normalize_query(q)
    THEN [row EXCEPT !.hit_count = @ + 1]
    ELSE row : row \in rows }

\* cleanup deleting the rows cached at the cutoff date as well
cache_cleanup_inclusive(rows, max_age_days, time) ==
  {row \in rows : ~(row.cached_at <= time - max_age_days * TicksPerDay)}

\* cleanup: DELETE .. WHERE cached_at < cutoff_date; the rows that stay
cache_cleanup(rows, max_age_days, time) ==
  {row \in rows : ~(row.cached_at < time - max_age_days * TicksPerDay)}

\* stats: COUNT(*), COALESCE(SUM(hit_count), 0), their quotient, and
\* MIN(cached_at) and MAX(cached_at) parsed back (None on an empty table)
RECURSIVE cache_stats(_)
cache_stats(rows) ==
  IF rows = {}
  THEN [total_entries |-> 0, total_hits |-> 0, avg_hit_count |-> Zero,
        oldest_entry |-> None, newest_entry |-> None]
  ELSE LET row == CHOOSE row \in rows : TRUE
           rest == cache_stats(rows \ {row})
           entries == rest.total_entries + 1
           hits == rest.total_hits + row.hit_count
       IN  [total_entries |-> entries,
            total_hits |-> hits,
            avg_hit_count |-> Rat(hits, entries),
            oldest_entry |->
              IF rest.oldest_entry = None THEN Some(row.cached_at)
              ELSE Some(Min2(rest.oldest_entry[1], row.cached_at)),
            newest_entry |->
              IF rest.newest_entry = None THEN Some(row.cached_at)
              ELSE IF rest.newest_entry[1] < row.cached_at
              THEN Some(row.cached_at)
              ELSE rest.newest_entry]

\* SqliteCache::new(":memory:")
InitCache ==
  /\ cache = {}
  /\ now = 0
  /\ pc = "open"
  /\ res = None
  /\ prev = None
  /\ query = <<>>
  /\ title = <<>>
  /\ IdleRest
  /\ IdleRanker

cache_frame ==
  <<query, title, pc, prev, a_tokens, b_tokens, ranker_vars, bots, hub,
    running, lock, interactive>>

\* cache.save(q, &game, &alternatives)
Save ==
  /\ \E q \in CacheQueries, game \in Games,
        alternatives \in { <<>>, << [name |-> <<"C","S">>, year |-> None] >> } :
       /\ cache' = cache_save(cache, q, game, alternatives, now)
       /\ res' = Some([op |-> "save", query |-> q, game |-> game,
                       alternatives |-> alternatives])
  /\ UNCHANGED <<now, cache_frame>>

\* cache.get(q)
Get ==
  /\ \E q \in CacheQueries :
       res' = Some([op |-> "get", query |-> q, value |-> cache_get(cache, q)])
  /\ UNCHANGED <<cache, now, cache_frame>>

\* cache.increment_hit(q)
IncrementHit ==
  /\ \E q \in CacheQueries :
       /\ \A row \in cache :
            row.query = normalize_query(q) => row.hit_count < MaxHits
       /\ cache' = cache_increment_hit(cache, q)
       /\ res' = Some([op |-> "increment_hit", query |-> q])
  /\ UNCHANGED <<now, cache_frame>>

\* cache.cleanup(max_age_days)
Cleanup ==
  /\ \E max_age_days \in 0..1 :
       /\ cache' = cache_cleanup(cache, max_age_days, now)
       /\ res' = Some([op |-> "cleanup", max_age_days |-> max_age_days,
                       deleted |-> Cardinality(cache) - Cardinality(cache')])
  /\ UNCHANGED <<now, cache_frame>>

\* cache.stats()
Stats ==
  /\ res' = Some([op |-> "stats", stats |-> cache_stats(cache)])
  /\ UNCHANGED <<cache, now, cache_frame>>

\* time passes between two calls
Tick ==
  /\ now < MaxClock
  /\ now' = now + 1
  /\ UNCHANGED <<cache, res, cache_frame>>

SpecCache ==
  InitCache /\
    [][Save \/ Get \/ IncrementHit \/ Stats \/ Cleanup \/ Tick]_vars

---------------------------------------------------------------------------
(* Part 3: GameEngine::search of src/kissbot-game-engine/src/engine.rs.    *)
(*                                                                         *)
(* The providers and the ranker are outside the engine: what they return   *)
(* is chosen freely, the candidates among the lists below and the score of *)
(* each candidate among ScoreLevels.                                       *)

ScoreLevels == { Rat(60, 1), Rat(70, 1) }

SearchQueries == { <<"c","s">>, <<" ","C","S"," ">> }

CandidateLists ==
  { <<>>,
    << [name |-> <<"C","S","2">>, year |-> Some(2023)] >>,
    << [name |-> <<"C","S">>, year |-> None],
       [name |-> <<"C","S","2">>, year |-> Some(2023)] >> }

\* best.score >= 70.0 with the threshold lowered to nothing
cache_worthy_any(score) == TRUE

\* best.score >= 70.0
cache_worthy(score) == RLeq(Rat(70, 1), score)

\* the Ok(SearchResponse) of a search that went to the providers, and the
\* table after it: ranked is not empty
fresh_response(rows, request, ranked, time) ==
  LET best == ranked[1]
      amount == Min2(Len(ranked) - 1,
                     IF request.max_results = 0 THEN 0
                     ELSE request.max_results - 1)
      alternatives == [i \in 1..amount |-> ranked[i + 1][1]]
  IN  [rows |-> IF request.use_cache /\ cache_worthy(best[2])
                THEN cache_save(rows, request.query, best[1], alternatives,
                                time)
                ELSE rows,
       response |->
         [ok |-> TRUE, game |-> best[1], score |-> best[2],
          result_type |-> IF RLeq(Rat(95, 1), best[2]) THEN "Exact"
                          ELSE IF RLeq(Rat(70, 1), best[2]) THEN "Fuzzy"
                          ELSE "Fallback",
          alternatives |-> alternatives, from_cache |-> FALSE]]

\* engine.search(SearchQuery { query, max_results, use_cache })
Search ==
  /\ \E q \in SearchQueries, use_cache \in BOOLEAN, max_results \in 1..2 :
       LET request == [query |-> q, use_cache |-> use_cache,
                       max_results |-> max_results]
           cached == cache_get(cache, q)
       IN  IF use_cache /\ cached # None
           THEN /\ cached[1].hit_count < MaxHits
                /\ cache' = cache_increment_hit(cache, q)
                /\ res' = Some([request |-> request,
                                response |->
                                  [ok |-> TRUE, game |-> cached[1].game,
                                   score |-> Rat(100, 1),
                                   result_type |-> "CacheHit",
                                   alternatives |-> cached[1].alternatives,
                                   from_cache |-> TRUE]])
           ELSE \E all_candidates \in CandidateLists :
                  IF all_candidates = <<>>
                  THEN /\ cache' = cache
                       /\ res' = Some([request |-> request,
                                       response |->
                                         [ok |-> FALSE,
                                          error |-> "NoResults"]])
                  ELSE \/ /\ cache' = cache
                          /\ res' = Some([request |-> request,
                                          response |->
                                            [ok |-> FALSE,
                                             error |-> "DrakonApi"]])
                       \/ \E levels \in
                               [1..Len(all_candidates) -> ScoreLevels] :
                            LET ranked ==
                                  sort_by_desc(
                                    [i \in 1..Len(all_candidates) |->
                                       <<all_candidates[i], levels[i]>>])
                                done == fresh_response(cache, request,
                                                       ranked, now)
                            IN  /\ cache' = done.rows
                                /\ res' = Some([request |-> request,
                                                response |-> done.response])
  /\ prev' = res
  /\ UNCHANGED <<now, query, title, pc, a_tokens, b_tokens, ranker_vars,
                 bots, hub, running, lock, interactive>>

SpecEngine == InitCache /\ [][Search]_vars

---------------------------------------------------------------------------
(* Part 4: the supervisor of src/rust-supervisor/src/main.rs.              *)
(*                                                                         *)
(* The process field of a BotProcess or HubProcess is "none" (None),       *)
(* "live" (Some(child), try_wait gives Ok(None)) or "exited" (Some(child)  *)
(* of a child that has exited); strays counts the live children whose      *)
(* handle was dropped.  pc gives, for the main task and for the command    *)
(* listener, the calls the task has still to make, the first one first;    *)
(* the main task has returned from run when it has none left.  res holds   *)
(* the calls start_all and stop_all have made for the command in hand.     *)
(* Only the main task takes the lock of hub, which is left out.            *)

MaxRestarts == 1

Channels == {"a", "b"}

\* the orders in which bots.iter_mut() can visit the channels
Orders ==
  { o \in [1..Cardinality(Channels) -> Channels] :
      \A i, k \in 1..Cardinality(Channels) : i # k => o[i] # o[k] }

\* BotProcess::new, HubProcess::new
new_process == [process |-> "none", restart_count |-> 0, strays |-> 0]

is_running(p) == p.process = "live"

\* start spawning a child without looking at the one it holds
start_unchecked(p, spawned) ==
  IF spawned
  THEN [p EXCEPT !.process = "live",
                 !.strays = IF p.process = "live" THEN @ + 1 ELSE @]
  ELSE p

\* start: nothing when the child is running; else the spawned child is
\* held, or nothing changes when cmd.spawn() fails
start(p, spawned) ==
  IF is_running(p) THEN p
  ELSE IF spawned THEN [p EXCEPT !.process = "live"]
  ELSE p

\* stop: SIGTERM, then the child's exit is awaited, or forced after the
\* timeout
stop(p) == IF is_running(p) THEN [p EXCEPT !.process = "exited"] ELSE p

\* restart counting every call, whether its start succeeded or not
restart_counting_all(p, spawned) ==
  [start(stop(p), spawned) EXCEPT !.restart_count = @ + 1]

\* restart: stop, sleep, start, and restart_count += 1 if start succeeded
restart(p, spawned) ==
  LET stopped == stop(p)
      started == start(stopped, spawned)
  IN  IF started # stopped
      THEN [started EXCEPT !.restart_count = @ + 1]
      ELSE started

Call(call, on, by) == [call |-> call, on |-> on, by |-> by]

\* let mut bots = self.bots.write().await; the call on each bot of the
\* order; the guard is dropped
block(call, order, by) ==
  << Call("lock", "bots", by) >>
    \o [i \in 1..Len(order) |-> Call(call, order[i], by)]
    \o << Call("unlock", "bots", by) >>

\* start_all with the bots started before the hub
start_all_bots_first(order) ==
  block("start", order, "start_all")
    \o (IF hub # None THEN << Call("start", "hub", "start_all") >> ELSE <<>>)

start_all(order) ==
  (IF hub # None THEN << Call("start", "hub", "start_all") >> ELSE <<>>)
    \o block("start", order, "start_all")

stop_all(order) ==
  block("stop", order, "stop_all")
    \o (IF hub # None THEN << Call("stop", "hub", "stop_all") >> ELSE <<>>)

\* one pass of health_check_loop: the hub, then the bots
health_check(order) ==
  (IF hub # None THEN << Call("check", "hub", "health_check") >> ELSE <<>>)
    \o block("check", order, "health_check")

\* the lines of the CLI and the contents of the command file; a start, a
\* stop or a restart names a channel of the configuration
Commands ==
  { [name |-> n, channel |-> c] : n \in {"start", "stop", "restart"},
                                  c \in Channels }
    \cup { [name |-> n, channel |-> ""] :
             n \in {"status", "start-all", "stop-all", "restart-all",
                    "hub-restart", "quit", "eof"} }

\* the calls of one command of interactive_cli or of execute_cmd
command(cmd, order) ==
  IF cmd.name \in {"start", "stop", "restart"}
  THEN block(cmd.name, << cmd.channel >>, "command")
  ELSE IF cmd.name = "status" THEN block("status", <<>>, "command")
  ELSE IF cmd.name = "start-all" THEN start_all(order)
  ELSE IF cmd.name = "stop-all" THEN stop_all(order)
  ELSE IF cmd.name = "restart-all" THEN stop_all(order) \o start_all(order)
  ELSE IF cmd.name = "hub-restart" /\ hub # None
  THEN << Call("restart", "hub", "command") >>
  ELSE <<>>

sup_frame ==
  <<query, title, prev, ranker_vars, a_tokens, b_tokens, cache, now>>

\* Supervisor::new, and run about to call start_all
InitSupervisor ==
  /\ interactive \in BOOLEAN
  /\ hub \in {None, Some(new_process)}
  /\ bots = [c \in Channels |-> new_process]
  /\ running = TRUE
  /\ lock = "free"
  /\ pc \in { [main |-> start_all(order)
                          \o << Call("spawn", "run", "run"),
                                Call("loop", "run", "run") >>,
                listener |-> <<>>] : order \in Orders }
  /\ res = Some(<<>>)
  /\ prev = None
  /\ query = <<>>
  /\ title = <<>>
  /\ a_tokens = <<>>
  /\ b_tokens = <<>>
  /\ cache = {}
  /\ now = 0
  /\ IdleRanker

\* the task has a call to make, and the supervisor has not exited
Pending(t, calls) ==
  /\ pc.main # <<>>
  /\ pc[t] # <<>>
  /\ pc[t][1].call \in calls

\* the environment may still stop or crash processes
RestartsLeft ==
  /\ \A c \in Channels : bots[c].restart_count < MaxRestarts
  /\ hub # None => hub[1].restart_count < MaxRestarts

\* self.bots.write().await
Lock(t) ==
  /\ Pending(t, {"lock"})
  /\ lock = "free"
  /\ lock' = t
  /\ pc' = [pc EXCEPT ![t] = Tail(@)]
  /\ UNCHANGED <<bots, hub, running, interactive, res, sup_frame>>

\* the write guard of bots goes out of scope
Unlock(t) ==
  /\ Pending(t, {"unlock"})
  /\ lock' = "free"
  /\ pc' = [pc EXCEPT ![t] = Tail(@)]
  /\ UNCHANGED <<bots, hub, running, interactive, res, sup_frame>>

\* a start, stop or restart call on a bot or on the hub, or the
\* is_running test of the health check with its restart; the start
\* command calls start only on a bot that is not running
Act(t, spawned) ==
  /\ Pending(t, {"start", "stop", "restart", "check"})
  /\ LET op == pc[t][1]
         p == IF op.on = "hub" THEN hub[1] ELSE bots[op.on]
         q == IF op.call = "start"
              THEN IF op.by = "command" /\ is_running(p) THEN p
                   ELSE start(p, spawned)
              ELSE IF op.call = "stop" THEN stop(p)
              ELSE IF op.call = "restart" THEN restart(p, spawned)
              ELSE IF is_running(p) THEN p
              ELSE restart(p, spawned)
     IN  /\ IF op.on = "hub"
            THEN hub' = Some(q) /\ bots' = bots
            ELSE bots' = [bots EXCEPT ![op.on] = q] /\ hub' = hub
         /\ res' = IF op.by \in {"start_all", "stop_all"}
                   THEN Some(Append(res[1], op))
                   ELSE res
  /\ pc' = [pc EXCEPT ![t] = Tail(@)]
  /\ UNCHANGED <<running, lock, interactive, sup_frame>>

\* run spawns the signal handler and the command listener
Spawn ==
  /\ Pending("main", {"spawn"})
  /\ pc' = [main |-> Tail(pc.main),
            listener |-> << Call("listen", "run", "run") >>]
  /\ UNCHANGED <<bots, hub, running, lock, interactive, res, sup_frame>>

\* while *self.running.read().await of health_check_loop and of
\* interactive_cli; after the loop, run calls stop_all and returns
Loop ==
  /\ Pending("main", {"loop"})
  /\ \E order \in Orders :
       IF ~running
       THEN pc' = [pc EXCEPT !.main = stop_all(order)] /\ res' = Some(<<>>)
       ELSE IF interactive
       THEN /\ pc' = [pc EXCEPT !.main = << Call("read", "run", "run") >>]
            /\ res' = res
       ELSE /\ pc' = [pc EXCEPT !.main = health_check(order)
                                          \o << Call("loop", "run", "run") >>]
            /\ res' = res
  /\ UNCHANGED <<bots, hub, running, lock, interactive, sup_frame>>

\* lines.next_line().await returns: the operator has entered a line, or
\* closed the input
ReadLine ==
  /\ Pending("main", {"read"})
  /\ \E cmd \in Commands, order \in Orders :
       IF cmd.name \in {"quit", "eof"}
       THEN /\ running' = (running /\ cmd.name # "quit")
            /\ pc' = [pc EXCEPT !.main = stop_all(order)]
       ELSE /\ RestartsLeft
            /\ running' = running
            /\ pc' = [pc EXCEPT !.main = command(cmd, order)
                                          \o << Call("loop", "run", "run") >>]
  /\ res' = Some(<<>>)
  /\ UNCHANGED <<bots, hub, lock, interactive, sup_frame>>

\* the command listener: while *running.read().await, a command file
\* found is executed
Listen ==
  /\ Pending("listener", {"listen"})
  /\ IF ~running
     THEN pc' = [pc EXCEPT !.listener = <<>>]
     ELSE /\ RestartsLeft
          /\ \E cmd \in Commands :
               /\ cmd.name \in {"start", "stop", "restart", "status"}
               /\ pc' = [pc EXCEPT !.listener =
                           command(cmd, <<>>)
                             \o << Call("listen", "run", "run") >>]
  /\ UNCHANGED <<bots, hub, running, lock, interactive, res, sup_frame>>

\* SIGTERM or SIGINT reaches the signal handler
Signal ==
  /\ pc.main # <<>>
  /\ \A i \in 1..Len(pc.main) : pc.main[i].call # "spawn"
  /\ running
  /\ running' = FALSE
  /\ UNCHANGED <<bots, hub, lock, interactive, pc, res, sup_frame>>

\* a child process exits by itself
Crash ==
  /\ pc.main # <<>>
  /\ RestartsLeft
  /\ \/ /\ hub # None
        /\ is_running(hub[1])
        /\ hub' = Some([hub[1] EXCEPT !.process = "exited"])
        /\ bots' = bots
     \/ \E c \in Channels :
          /\ is_running(bots[c])
          /\ bots' = [bots EXCEPT ![c].process = "exited"]
          /\ hub' = hub
  /\ UNCHANGED <<running, lock, interactive, pc, res, sup_frame>>

\* a call of the main task
Main ==
  \/ Lock("main") \/ Unlock("main") \/ Spawn \/ Loop
  \/ \E spawned \in BOOLEAN : Act("main", spawned)

\* a call of the command listener
Listener ==
  \/ Lock("listener") \/ Unlock("listener")
  \/ \E spawned \in BOOLEAN : Act("listener", spawned)

NextSupervisor == Main \/ Listener \/ ReadLine \/ Listen \/ Signal \/ Crash

SpecSupervisor == InitSupervisor /\ [][NextSupervisor]_vars

\* the main task makes the check call on a process that is not running,
\* and cmd.spawn() succeeds
Respawn(on) ==
  /\ Pending("main", {"check"})
  /\ pc.main[1].on = on
  /\ on = "hub" => hub # None
  /\ ~is_running(IF on = "hub" THEN hub[1] ELSE bots[on])
  /\ Act("main", TRUE)

\* the tokio runtime polls every task that can go on; the write lock of
\* bots is granted in the order it was asked for, so no task waits for it
\* for ever; spawning succeeds in the end.  The operator's lines, the
\* command files, the signals and the crashes are not owed to anyone.
LiveSupervisor ==
  /\ SpecSupervisor
  /\ WF_vars(Main)
  /\ WF_vars(Listener)
  /\ SF_vars(Lock("main"))
  /\ SF_vars(Lock("listener"))
  /\ \A on \in Channels \cup {"hub"} : SF_vars(Respawn(on))

---------------------------------------------------------------------------
(* Properties of the scorer.                                               *)

Scored == pc = "scored" /\ res # None

\* the values of the last call
Last == res[1]

\* the text holds at least one alphanumeric character
HasAlnum(text) == \E i \in 1..Len(text) : is_alphanumeric(text[i])

Tenth == Rat(1, 10)

\* C1: for every pair of input strings, empty, symbol-only and non-ASCII
\* ones included, the delta returned lies in [0, 1].
C1_Bounded ==
  Scored => RLeq(Zero, Last.delta) /\ RLeq(Last.delta, One)

\* a symbol-only query against a non-ASCII title has been scored
C1_Witness ==
  /\ Scored
  /\ query = <<"-">>
  /\ title = <<"e", "comb_acute">>
  /\ Last.delta = One

\* C4: when the token sequence of the query or of the title is empty (the
\* empty string, or a string without alphanumeric character; both at once
\* included), delta is exactly 1.0 whatever the other argument is.
C4_EmptyFloor ==
  ( /\ Scored
    /\ \/ ~HasAlnum(query)
       \/ ~HasAlnum(title)
       \/ Last.q_tokens = <<>>
       \/ Last.t_tokens = <<>> )
  => Last.delta = One

\* an empty query against a title with two tokens has been scored
C4_Witness ==
  /\ Scored
  /\ query = <<>>
  /\ Len(Last.t_tokens) = 2
  /\ Last.early

\* C5: for every string s with at least one alphanumeric character,
\* delta(s, s) < 0.1.
C5_NearIdentity ==
  Scored /\ query = title /\ HasAlnum(query) => RLess(Last.delta, Tenth)

\* a two-token string with an edition keyword and a numeral has been scored
\* against itself
C5_Witness ==
  /\ Scored
  /\ query = title
  /\ Len(Last.q_tokens) = 2
  /\ is_dlc_like(Last.q_tokens)
  /\ \E i \in 1..2 : Last.q_tokens[i] = <<"2">>

\* every token of q occurs in t
TokensOccurIn(q_tokens, t_tokens) ==
  \A i \in 1..Len(q_tokens) : SeqContains(t_tokens, q_tokens[i])

\* the joined tokens hold some edition keyword as a substring
HoldsKeyword(tokens) ==
  \E k \in 1..Len(DLC_KEYWORDS) :
    str_contains(join(tokens, <<" ">>), DLC_KEYWORDS[k])

\* the last call scored the title of the call before with one keyword
\* appended, for a base-game query whose tokens all occur in that title
EditionCase ==
  /\ Scored
  /\ prev # None
  /\ Last.q_tokens # <<>>
  /\ TokensOccurIn(Last.q_tokens, prev[1].res.t_tokens)
  /\ ~HoldsKeyword(Last.q_tokens)
  /\ ~HoldsKeyword(prev[1].res.t_tokens)
  /\ \E k \in 1..Len(DLC_KEYWORDS) :
       title = prev[1].title \o <<" ">> \o DLC_KEYWORDS[k]

\* C6: for a query q and a title c holding every token of q, neither with an
\* edition keyword, c with one keyword appended scores strictly higher.
C6_EditionPenalty ==
  EditionCase => RLess(prev[1].res.delta, Last.delta)

\* "bold" against "bold zz yy" and then against "bold zz yy gold": the
\* appended keyword resembles the query and raises the edit similarity
C6_Witness ==
  /\ EditionCase
  /\ Last.q_tokens = << <<"b","o","l","d">> >>
  /\ Len(prev[1].res.t_tokens) = 3
  /\ Last.t_tokens[4] = <<"g","o","l","d">>
  /\ RLess(prev[1].res.l, Last.l)

\* C7: for every n in 1..20 and base word w, "w n" against "W R", R the
\* roman numeral of n, scores below 0.3.
C7_NumeralEquivalence ==
  Scored => RLess(Last.delta, Rat(3, 10))

\* the combiner as the specification states it
StatedJ(j, q_tokens, t_tokens) ==
  IF Len(q_tokens) = 1 /\ Len(t_tokens) > 1
  THEN RMin(Rat(4, 5), RMin(One, RAdd(j, RMul(Rat(1, 4), RSub(One, j)))))
  ELSE RMin(Rat(4, 5), j)

StatedDebias(d, q_tokens, t_tokens) ==
  IF HoldsKeyword(t_tokens) /\ ~HoldsKeyword(q_tokens)
  THEN RMin(One, RMul(Rat(21, 20), d))
  ELSE d

StatedDelta(j, l, r, q_tokens, t_tokens) ==
  LET jp == StatedJ(j, q_tokens, t_tokens)
      base == RAdd(RAdd(RAdd(RMul(Rat(2, 5), RSub(One, jp)),
                             RMul(Rat(2, 5), RSub(One, l))),
                        RMul(Rat(1, 5), RSub(One, r))),
                   RMul(Rat(7, 20), RSub(One, r)))
      d == StatedDebias(RMin(One, base), q_tokens, t_tokens)
  IN  RMax(Zero, RMin(One, d))

\* C8: for non-empty token sequences delta is
\* clamp(debias(min(1, wJ(1-J') + wL(1-L) + wR(1-R) + beta(1-R)))), J' the
\* Jaccard index boosted (one-token query, longer title) and then capped.
C8_CombinerFormula ==
  Scored /\ ~Last.early =>
    Last.delta = StatedDelta(Last.j, Last.l, Last.r,
                             Last.q_tokens, Last.t_tokens)

\* a one-token query has been scored against a two-token title with an
\* edition keyword: the boost and the debias both apply
C8_Witness ==
  /\ Scored
  /\ ~Last.early
  /\ Len(Last.q_tokens) = 1
  /\ Len(Last.t_tokens) = 2
  /\ RLess(Zero, Last.j)
  /\ RLess(Last.clamped, Last.debiased)

\* C9: apply_dlc_debias returns min(1, 1.05 delta) exactly when the title's
\* joined tokens hold a keyword and the query's hold none, and delta
\* unchanged otherwise; it never lowers delta.
C9_Debias ==
  Scored /\ ~Last.early =>
    /\ Last.debiased =
         (IF HoldsKeyword(Last.t_tokens) /\ ~HoldsKeyword(Last.q_tokens)
          THEN RMin(One, RMul(Rat(21, 20), Last.clamped))
          ELSE Last.clamped)
    /\ RLeq(Last.clamped, Last.debiased)

\* a title whose token "hdr" holds the keyword "hd" inside a longer token
\* has been scored against a query without keyword, and was penalised
C9_Witness ==
  /\ Scored
  /\ ~Last.early
  /\ Last.t_tokens = << <<"h","d","r">> >>
  /\ ~HoldsKeyword(Last.q_tokens)
  /\ Last.debiased = RMul(Rat(21, 20), Last.clamped)

\* the anchor characters of a text
AnchorsOf(text) == {c \in SeqToSet(text) : c \in AnchorChars}

\* C10: for a query with an anchor character and two titles with the same
\* tokens, the title whose anchor characters differ from the query's gets
\* R < 1, mu_anchor > 0 and a strictly larger delta than the title whose
\* anchor characters are the query's.
C10_AnchorInfluence ==
  ( /\ Scored
    /\ prev # None
    /\ AnchorsOf(query) # {}
    /\ Last.t_tokens = prev[1].res.t_tokens
    /\ AnchorsOf(prev[1].title) = AnchorsOf(query)
    /\ AnchorsOf(title) # AnchorsOf(query) )
  => /\ RLess(Last.r, One)
     /\ RLess(Zero, Last.mu_anchor)
     /\ RLess(prev[1].res.delta, Last.delta)

---------------------------------------------------------------------------
(* Properties of the ranker.                                               *)

Ranked == pc = "ranked"

\* C2: the ranked output is a permutation of the candidate positions, its
\* deltas are non-decreasing, and two candidates of exactly equal delta stand
\* in increasing order of their position in the candidate list.
C2_RankedOrder ==
  Ranked =>
    /\ Len(scores) = Len(catalog)
    /\ {scores[i][1] : i \in 1..Len(scores)} = 0..(Len(catalog) - 1)
    /\ \A i, j \in 1..Len(scores) :
         i < j =>
           /\ RLeq(scores[i][2], scores[j][2])
           /\ scores[i][2] = scores[j][2] => scores[i][1] < scores[j][1]

\* a ranking with a tie and with a strict step, which the sort had to reorder
C2_Witness ==
  /\ Ranked
  /\ \E i, j \in 1..Len(scores) : i < j /\ scores[i][2] = scores[j][2]
  /\ \E i, j \in 1..Len(scores) : RLess(scores[i][2], scores[j][2])
  /\ \E i \in 1..Len(scores) : scores[i][1] # i - 1

\* C3: for every number of workers and every assignment and completion
\* order of the computations, the ordered output is the one the ranking on a
\* single thread gives, tied entries included: the entry of a candidate
\* holds the delta of the query and of that one candidate, whichever worker
\* computed it and whatever the other candidates are.
C3_RankStability ==
  Ranked => scores = rank_sequential(query, catalog)

\* a ranking by two workers whose results arrived out of catalog order, the
\* later of two tied candidates first
C3_Witness ==
  /\ Ranked
  /\ workers > 1
  /\ \E a, b \in 1..Len(computed) :
       /\ a < b
       /\ computed[a][1] > computed[b][1]
       /\ computed[a][2] = computed[b][2]

---------------------------------------------------------------------------
(* Properties of the per-token similarity.                                 *)

Compared == pc = "compared" /\ res # None

\* the edit distance of two sequences of characters, by its definition
RECURSIVE EditDistance(_, _)
EditDistance(s, t) ==
  IF s = <<>> THEN Len(t)
  ELSE IF t = <<>> THEN Len(s)
  ELSE Min2(Min2(EditDistance(Tail(s), t) + 1, EditDistance(s, Tail(t)) + 1),
            EditDistance(Tail(s), Tail(t))
              + (IF Head(s) = Head(t) THEN 0 ELSE 1))

\* 1 - levenshtein(s, t) / max(len(s), len(t)), lengths in characters
StatedSim(s, t) ==
  LET longest == IF Len(s) > Len(t) THEN Len(s) ELSE Len(t)
  IN  IF longest = 0 THEN One
      ELSE RSub(One, Rat(EditDistance(s, t), longest))

\* C11: sim(s, t) = 1 - levenshtein(s, t) / max(len(s), len(t)), distance
\* and lengths counted in Unicode scalar values, and sim of two empty
\* tokens is 1: characters of several bytes count like ASCII characters.
C11_CharSimilarity ==
  Compared =>
    /\ Last.dist = EditDistance(a_tokens[1], b_tokens[1])
    /\ Last.sim = StatedSim(a_tokens[1], b_tokens[1])

---------------------------------------------------------------------------
(* Properties of the normalizer.                                           *)

Normalized == pc = "normalized" /\ res # None

\* the composed, lower-cased text the tokens are cut from
Lowered == to_lowercase(nfc(query))

\* the maximal runs of alphanumeric characters of a text, as <<first, last>>
Runs(text) ==
  { r \in (1..Len(text)) \X (1..Len(text)) :
      /\ r[1] <= r[2]
      /\ \A i \in r[1]..r[2] : is_alphanumeric(text[i])
      /\ r[1] = 1 \/ ~is_alphanumeric(text[r[1] - 1])
      /\ r[2] = Len(text) \/ ~is_alphanumeric(text[r[2] + 1]) }

\* the k-th run of a text, in the order of appearance
RunAt(text, k) ==
  LET r == CHOOSE r \in Runs(text) :
             Cardinality({o \in Runs(text) : o[1] < r[1]}) = k - 1
  IN  SubSeq(text, r[1], r[2])

\* the token is the roman numeral of n
IsRomanOf(token, n) == ROMAN_NUMERALS[n] = token

IsRoman(token) == \E n \in 1..20 : IsRomanOf(token, n)

\* the decimal digits of a number below 100
Digits(n) ==
  LET d(k) == <<"0","1","2","3","4","5","6","7","8","9">>[k + 1]
  IN  IF n < 10 THEN <<d(n)>> ELSE <<d(n \div 10), d(n % 10)>>

\* some token of 1 to 4 characters is purely numeric or a roman numeral
NumeralContext(tokens) ==
  \E i \in 1..Len(tokens) :
    /\ Len(tokens[i]) >= 1
    /\ Len(tokens[i]) <= 4
    /\ \/ \A k \in 1..Len(tokens[i]) : tokens[i][k] \in AsciiDigits
       \/ IsRoman(tokens[i])

\* C12: a token is replaced by its arabic digit string if and only if it is
\* exactly a roman numeral of i..xx and some token of length 1 to 4 of the
\* same input is purely numeric or such a numeral; every other token, and
\* every token of an input without such a short token, is left as it is.
C12_RomanMapping ==
  Normalized =>
    LET raw == [k \in 1..Cardinality(Runs(Lowered)) |-> RunAt(Lowered, k)]
    IN  /\ Len(Last.tokens) = Len(raw)
        /\ \A i \in 1..Len(raw) :
             IF NumeralContext(raw) /\ IsRoman(raw[i])
             THEN \E n \in 1..20 : /\ IsRomanOf(raw[i], n)
                                   /\ Last.tokens[i] = Digits(n)
             ELSE Last.tokens[i] = raw[i]

\* "Mix II" gave [mix, 2]: the numeral is mapped, the word is not
C12_Witness ==
  /\ Normalized
  /\ query = <<"M","i","x"," ","I","I">>
  /\ Last.tokens = << <<"m","i","x">>, <<"2">> >>

\* C15: every token is non-empty, alphanumeric and lower-cased, the tokens
\* keep the order in which they appear in the input, and an input without
\* alphanumeric character gives the empty sequence.
C15_TokenShape ==
  Normalized =>
    /\ \A i \in 1..Len(Last.tokens) :
         /\ Last.tokens[i] # <<>>
         /\ \A k \in 1..Len(Last.tokens[i]) :
              is_alphanumeric(Last.tokens[i][k])
         /\ to_lowercase(Last.tokens[i]) = Last.tokens[i]
    /\ Len(Last.tokens) = Cardinality(Runs(Lowered))
    /\ \A i \in 1..Len(Last.tokens) :
         \/ Last.tokens[i] = RunAt(Lowered, i)
         \/ /\ IsRoman(RunAt(Lowered, i))
            /\ \A k \in 1..Len(Last.tokens[i]) :
                 Last.tokens[i][k] \in AsciiDigits
    /\ ~HasAlnum(query) => Last.tokens = <<>>

\* a decomposed capital after a symbol gave the one composed, lower-cased
\* token
C15_Witness ==
  /\ Normalized
  /\ query = <<"-"," ","E","comb_acute">>
  /\ Last.tokens = << <<"e_acute">> >>

---------------------------------------------------------------------------
(* Properties of the token-sequence scorers.                               *)

\* the greatest element of a non-empty set of numbers
Greatest(S) == CHOOSE m \in S : \A x \in S : RLeq(x, m)

\* the sum of f[1] .. f[n]
RECURSIVE SumTo(_, _)
SumTo(f, n) == IF n = 0 THEN Zero ELSE RAdd(SumTo(f, n - 1), f[n])

\* the average of the forward and of the backward mean of the best matches
StatedL(A, B) ==
  IF A = <<>> /\ B = <<>> THEN One
  ELSE IF A = <<>> \/ B = <<>> THEN Zero
  ELSE
    LET fwd == [i \in 1..Len(A) |->
                  Greatest({levenshtein_sim(A[i], B[k]) : k \in 1..Len(B)})]
        bwd == [k \in 1..Len(B) |->
                  Greatest({levenshtein_sim(A[i], B[k]) : i \in 1..Len(A)})]
    IN  RDivInt(RAdd(RDivInt(SumTo(fwd, Len(A)), Len(A)),
                     RDivInt(SumTo(bwd, Len(B)), Len(B))), 2)

\* C13: l_symmetric(A, B) is the average of the forward mean (over a in A,
\* of the greatest sim(a, b) over b in B) and of the backward mean (over b
\* in B, of the greatest sim(a, b) over a in A); it is 1.0 for two empty
\* sequences, 0.0 when exactly one is empty, and always lies in [0, 1].
C13_SymmetricAverage ==
  pc = "l_symmetric" =>
    /\ Last.l = StatedL(a_tokens, b_tokens)
    /\ a_tokens = <<>> /\ b_tokens = <<>> => Last.l = One
    /\ (a_tokens = <<>>) # (b_tokens = <<>>) => Last.l = Zero
    /\ RLeq(Zero, Last.l) /\ RLeq(Last.l, One)

\* [a] against [a, bc]: the forward mean is 1, the backward mean 1/2
C13_Witness ==
  /\ pc = "l_symmetric"
  /\ a_tokens = << <<"a">> >>
  /\ b_tokens = << <<"a">>, <<"b","c">> >>
  /\ Last.l = Rat(3, 4)

\* the set of the adjacent pairs of a token sequence
PairsOf(tokens) == { <<tokens[i], tokens[i + 1]>> : i \in 1..(Len(tokens) - 1) }

StatedOverlap(A, B) ==
  IF A = <<>> /\ B = <<>> THEN One
  ELSE IF A = <<>> \/ B = <<>> THEN Zero
  ELSE Rat(Cardinality(SeqToSet(A) \cap SeqToSet(B))
             + Cardinality(PairsOf(A) \cap PairsOf(B)),
           Cardinality(SeqToSet(A) \cup SeqToSet(B))
             + Cardinality(PairsOf(A) \cup PairsOf(B)))

\* C14: jaccard_index(A, B) is (|uniA n uniB| + |biA n biB|) /
\* (|uniA u uniB| + |biA u biB|) over the sets of tokens and the sets of
\* adjacent pairs, distinct pairs staying distinct; it is 1.0 for two empty
\* sequences, 0.0 when exactly one is empty, and always lies in [0, 1].
C14_JaccardBigrams ==
  pc = "jaccard" =>
    /\ Last.j = StatedOverlap(a_tokens, b_tokens)
    /\ a_tokens = <<>> /\ b_tokens = <<>> => Last.j = One
    /\ (a_tokens = <<>>) # (b_tokens = <<>>) => Last.j = Zero
    /\ RLeq(Zero, Last.j) /\ RLeq(Last.j, One)

\* [a, a, a] against [a, a]: one token and one pair on each side
C14_Witness ==
  /\ pc = "jaccard"
  /\ a_tokens = << <<"a">>, <<"a">>, <<"a">> >>
  /\ b_tokens = << <<"a">>, <<"a">> >>
  /\ Last.j = One

---------------------------------------------------------------------------
(* Properties of the evaluation routines.                                  *)

\* a routine has ranked its candidates
EvaluatedFound == pc = "evaluated" /\ res # None /\ Last.gt_idx # None

\* C16: scoring and ranking never fail: every delta is a number and not a
\* NaN, for symbol-only queries and titles too, so the comparator's unwrap
\* never panics.
C16_NeverFails ==
  /\ pc # "panicked"
  /\ \A i \in 1..Len(scores) :
       /\ ~is_nan(scores[i][2])
       /\ partial_cmp(scores[i][2], scores[1][2]) # None

\* a catalog with a symbol-only title and a matching title has been ranked
C16_Witness ==
  /\ EvaluatedFound
  /\ Last.routine = "evaluate_query_full"
  /\ query = <<"d","o","o","m">>
  /\ catalog = << <<"-">>, <<"d","o","o","m">> >>
  /\ scores = << <<1, Rat(2, 25)>>, <<0, One>> >>

\* C17: in every routine that ranks candidates by semantic_delta_v3 the
\* first entry of the sorted list is a candidate of minimum delta, and the
\* ground truth is reported at rank 1 only if no scored candidate has a
\* smaller delta.
C17_RankOneIsMinimum ==
  EvaluatedFound =>
    /\ \A i \in 1..Len(scores) : RLeq(scores[1][2], scores[i][2])
    /\ Last.rank_1 =>
         \A i, k \in 1..Len(scores) :
           scores[k][1] = Last.gt_idx[1] => RLeq(scores[k][2], scores[i][2])

\* C18: for the candidates "Counter-Strike", "Counter-Strike 2" and
\* "Counter-Strike: Source" and the query "Counter-Strike", the candidate
\* at rank 1 is the exact match (position 0 of the list as written) with a
\* delta below 0.1, and both other candidates have a strictly higher delta.
C18_CounterStrike ==
  Ranked =>
    /\ catalog[scores[1][1] + 1] = query
    /\ catalog = ScenarioTitles => scores[1][1] = 0
    /\ RLess(scores[1][2], Tenth)
    /\ \A i \in 2..3 : RLess(scores[1][2], scores[i][2])

\* the list as written has been ranked by two workers: the exact match,
\* then ": Source", then "2"
C18_Witness ==
  /\ Ranked
  /\ workers = 2
  /\ catalog = ScenarioTitles
  /\ scores = << <<0, Rat(2, 25)>>, <<2, Rat(104, 525)>>, <<1, Rat(17, 75)>> >>

---------------------------------------------------------------------------
(* Properties of the game cache.                                           *)

\* what get returns of the saved data: Some(game and alternatives), or None
Held(rows, q) ==
  LET got == cache_get(rows, q)
  IN  IF got = None THEN None
      ELSE Some([game |-> got[1].game, alternatives |-> got[1].alternatives])

\* two queries with the same trimmed, lower-cased form
SameKey(q, k) == to_lowercase(trim(q)) = to_lowercase(trim(k))

\* the step is a save or a cleanup that changed the table
CacheWritten(ops) ==
  /\ res' # None
  /\ res'[1].op \in ops
  /\ cache' # cache

\* C20: after save(k, game, alternatives), get(k') returns that game and
\* those alternatives for every k' with the trimmed, lower-cased form of k,
\* until a save of the same normalized key or a cleanup replaces or removes
\* the entry; get of a normalized key that was never saved returns None.
C20_CacheRoundTrip ==
  /\ \A k \in CacheQueries : cache_get(cache, k) = None
  /\ [][ \A k \in CacheQueries :
           LET saved == CacheWritten({"save"}) /\ SameKey(k, res'[1].query)
               before == Held(cache, k)
               after == Held(cache', k)
           IN  /\ saved =>
                    after = Some([game |-> res'[1].game,
                                  alternatives |-> res'[1].alternatives])
               /\ ~saved /\ ~CacheWritten({"cleanup"}) => after = before
               /\ before = None /\ after # None => saved
       ]_vars

\* get(" CS ") has returned the game with its year and the one alternative
\* of an entry, after the hit count of the entry was raised
C20_Witness ==
  /\ res # None
  /\ Last.op = "get"
  /\ Last.query = <<" ","C","S"," ">>
  /\ Last.value # None
  /\ Last.value[1].query = <<"c","s">>
  /\ Last.value[1].game = [name |-> <<"C","S","2">>, year |-> Some(2023)]
  /\ Last.value[1].alternatives = << [name |-> <<"C","S">>, year |-> None] >>
  /\ Last.value[1].hit_count = 1

---------------------------------------------------------------------------
(* Properties of the engine.                                               *)

\* the last two calls were searches of the same query with use_cache, and
\* the first of them returned Ok with from_cache = false
Repeated ==
  /\ prev # None
  /\ res # None
  /\ prev[1].request.use_cache
  /\ prev[1].response.ok
  /\ ~prev[1].response.from_cache
  /\ Last.request.use_cache
  /\ Last.request.query = prev[1].request.query

\* C19: after search(q) with use_cache returned Ok with from_cache = false,
\* the search(q) with use_cache that follows it at once returns Ok with
\* from_cache = true and the same game, whatever the score of the first.
C19_RepeatIsCached ==
  Repeated =>
    /\ Last.response.ok
    /\ Last.response.from_cache
    /\ Last.response.game = prev[1].response.game

\* the hit count get reports for a key, None when the key has no entry
Hits(rows, k) ==
  LET got == cache_get(rows, k)
  IN  IF got = None THEN None ELSE Some(got[1].hit_count)

\* the trimmed, lower-cased forms of the queries
NormalKeys == {to_lowercase(trim(k)) : k \in CacheQueries}

\* the sum of the hit counts of the entries of the keys
RECURSIVE SumHits(_, _)
SumHits(rows, keys) ==
  IF keys = {} THEN 0
  ELSE LET k == CHOOSE k \in keys : TRUE
       IN  (IF Hits(rows, k) = None THEN 0 ELSE Hits(rows, k)[1])
             + SumHits(rows, keys \ {k})

\* C21: without cleanup, the hit count of an entry starts at 0 when its key
\* is first saved, grows by exactly one per increment_hit of its normalized
\* key, is not reset by a save of the same key and changes in no other
\* call; increment_hit of an absent key creates no entry; stats reports the
\* sum of the hit counts as total_hits and the number of distinct
\* normalized keys as total_entries.
C21_HitCounts ==
  [][ now' = now /\ res' # None /\ res'[1].op # "cleanup" =>
        /\ \A k \in NormalKeys :
             LET before == Hits(cache, k)
                 after == Hits(cache', k)
                 hit == res'[1].op = "increment_hit"
                          /\ SameKey(res'[1].query, k)
                 saved == res'[1].op = "save" /\ SameKey(res'[1].query, k)
             IN  /\ hit /\ before # None => after = Some(before[1] + 1)
                 /\ hit /\ before = None => after = None
                 /\ saved /\ before = None => after = Some(0)
                 /\ ~hit /\ before # None => after = before
                 /\ ~hit /\ ~saved => after = before
        /\ res'[1].op = "stats" =>
             /\ res'[1].stats.total_hits = SumHits(cache', NormalKeys)
             /\ res'[1].stats.total_entries =
                  Cardinality({k \in NormalKeys : Hits(cache', k) # None})
    ]_vars

\* stats has reported two entries and two hits, the entry of "cs" having
\* been saved again after its hit
C21_Witness ==
  /\ res # None
  /\ Last.op = "stats"
  /\ Last.stats.total_entries = 2
  /\ Last.stats.total_hits = 2
  /\ now = 1
  /\ \E row \in cache :
       row.query = <<"c","s">> /\ row.hit_count = 1 /\ row.cached_at = 1
  /\ \E row \in cache :
       row.query = <<"d">> /\ row.hit_count = 1 /\ row.cached_at = 0

\* the time get reports for the entry of a key, None when it has no entry
CachedAt(rows, k) ==
  LET got == cache_get(rows, k)
  IN  IF got = None THEN None ELSE Some(got[1].cached_at)

---------------------------------------------------------------------------
(* Further properties of the scorer.                                       *)

\* C23: when the token sequences of both inputs are non-empty, delta lies
\* between 0.08 and 0.84, the anchor ratio is 1.0 and mu_anchor is 0; so 0
\* is never returned, and 1.0 is returned only when a token sequence is
\* empty.
C23_DeltaRange ==
  Scored =>
    /\ Last.q_tokens # <<>> /\ Last.t_tokens # <<>> =>
         /\ RLeq(Rat(8, 100), Last.delta)
         /\ RLeq(Last.delta, Rat(84, 100))
         /\ Last.r = One
         /\ Last.mu_anchor = Zero
    /\ Last.delta # Zero
    /\ Last.delta = One => Last.q_tokens = <<>> \/ Last.t_tokens = <<>>

\* a text scored against itself: the delta is 0.08, not 0
C23_Witness ==
  /\ Scored
  /\ query = <<"d","o","o","m">>
  /\ title = query
  /\ Last.delta = Rat(8, 100)

\* the values of the call with the two arguments exchanged
Swapped == delta_title_steps(title, query)

\* C24: delta(q, c) = delta(c, q) whenever neither argument is a one-token
\* sequence facing a sequence of several tokens and is_dlc_like answers the
\* same for both; the overlap J, the edit similarity L and the anchor ratio
\* R are the same in both directions for every pair.
C24_Symmetry ==
  Scored =>
    /\ Swapped.j = Last.j
    /\ Swapped.l = Last.l
    /\ Swapped.r = Last.r
    /\ (/\ ~(Len(Last.q_tokens) = 1 /\ Len(Last.t_tokens) > 1)
        /\ ~(Len(Last.t_tokens) = 1 /\ Len(Last.q_tokens) > 1)
        /\ is_dlc_like(Last.q_tokens) = is_dlc_like(Last.t_tokens))
       => Swapped.delta = Last.delta

\* two texts of two tokens each, neither like an edition, with one token
\* in common: the delta is the same in both directions
C24_Witness ==
  /\ Scored
  /\ query = <<"d","o","o","m"," ","2">>
  /\ title = <<"e","comb_acute"," ","I","I">>
  /\ Last.q_tokens = << <<"d","o","o","m">>, <<"2">> >>
  /\ Last.t_tokens = << <<"e_acute">>, <<"2">> >>
  /\ Swapped.delta = Last.delta
  /\ RLess(Last.delta, One)

---------------------------------------------------------------------------
(* Further properties of the normalizer.                                   *)

\* C25: the only roman numeral of i..xx that occurs as a token of the
\* output is xviii; it occurs exactly when it is a token of the input and
\* no token of 1 to 4 characters of the input is purely numeric or a roman
\* numeral; every other roman numeral of the input is replaced by its
\* arabic digits.
C25_OnlyXviiiSurvives ==
  Normalized =>
    LET raw == [k \in 1..Cardinality(Runs(Lowered)) |-> RunAt(Lowered, k)]
        xviii == <<"x","v","i","i","i">>
    IN  /\ \A i \in 1..Len(Last.tokens) :
             IsRoman(Last.tokens[i]) => Last.tokens[i] = xviii
        /\ (\E i \in 1..Len(Last.tokens) : Last.tokens[i] = xviii)
             <=> /\ \E i \in 1..Len(raw) : raw[i] = xviii
                 /\ ~NumeralContext(raw)
        /\ \A i \in 1..Len(raw) :
             IsRoman(raw[i]) /\ raw[i] # xviii =>
               \E n \in 1..20 : /\ IsRomanOf(raw[i], n)
                                 /\ Last.tokens[i] = Digits(n)

\* "XVIII 12345" gave [xviii, 12345]: the number of five digits does not
\* open the mapping
C25_Witness ==
  /\ Normalized
  /\ query = <<"X","V","I","I","I"," ","1","2","3","4","5">>
  /\ Last.tokens = << <<"x","v","i","i","i">>, <<"1","2","3","4","5">> >>

---------------------------------------------------------------------------
(* Sampled against full-catalog evaluation.                                *)

\* the delta of the title at a position of the catalog, from 0
DeltaAt(idx) == semantic_delta_v3(query, catalog[idx + 1])

\* the position evaluate_query_full ranks first for the same input
FullFirst ==
  sort_by(score_candidates(query, catalog,
                           [i \in 1..Len(catalog) |-> i - 1]))[1][1]

\* C26: when the ground truth is in the catalog and the full-catalog
\* evaluation ranks it first, the sampled evaluation ranks it first too;
\* the sampled evaluation ranks the ground truth first whenever no sampled
\* candidate has a smaller delta (it wins every tie), the full-catalog
\* evaluation only when, moreover, no candidate at a smaller position has
\* the same delta.
C26_SampledAgreesWithFull ==
  EvaluatedFound =>
    LET gt == Last.gt_idx[1]
        others == (0..(Len(catalog) - 1)) \ {gt}
    IN  /\ Last.routine = "evaluate_query" =>
             /\ FullFirst = gt => Last.rank_1
             /\ {scores[i][1] : i \in 1..Len(scores)} \subseteq 0..(Len(catalog) - 1)
             /\ Cardinality({scores[i][1] : i \in 1..Len(scores)}) = Len(scores)
             /\ Len(scores) <= 1 + MaxDistractors
             /\ Last.rank_1 <=>
                  \A i \in 1..Len(scores) :
                    RLeq(DeltaAt(gt), DeltaAt(scores[i][1]))
        /\ Last.routine = "evaluate_query_full" =>
             (Last.rank_1 <=>
                \A o \in others :
                  IF o < gt THEN RLess(DeltaAt(gt), DeltaAt(o))
                  ELSE RLeq(DeltaAt(gt), DeltaAt(o)))

\* the sampled evaluation of "doom" in a catalog where the ground truth
\* "doom" stands before "DOOM", which has the same delta: both evaluations
\* rank the ground truth first
C26_Witness ==
  /\ EvaluatedFound
  /\ Last.routine = "evaluate_query"
  /\ query = <<"d","o","o","m">>
  /\ ground_truth = <<"d","o","o","m">>
  /\ catalog = << <<"d","o","o","m">>, <<"D","O","O","M">>,
                  <<"d","o","o","m"," ","2">> >>
  /\ scores = << <<0, Rat(2, 25)>>, <<1, Rat(2, 25)>>, <<2, Rat(3, 10)>> >>
  /\ Last.rank_1
  /\ FullFirst = 0

---------------------------------------------------------------------------
(* Properties of the supervisor.                                           *)

Tasks == {"main", "listener"}

\* the bot or hub the call is made on
Target(op) == IF op.on = "hub" THEN hub[1] ELSE bots[op.on]

\* the step is the call at the head of the calls of task t
Makes(t, calls) == Pending(t, calls) /\ pc'[t] = Tail(pc[t])

(* C29: no channel and no hub ever has two live children: no live child   *)
(* is left without its handle; a start call made on a process whose child  *)
(* is running changes nothing; a restart leaves the old child exited       *)
(* before a new one is held; and every call made on a bot, by the main     *)
(* task (CLI, health check) or by the command listener, is made by the     *)
(* task that holds the write lock of bots.                                 *)
C29_SingleChild ==
  /\ [](/\ \A c \in Channels : bots[c].strays = 0
        /\ hub # None => hub[1].strays = 0)
  /\ [][\A t \in Tasks :
         /\ Makes(t, {"start", "stop", "restart", "check"})
              /\ pc[t][1].on # "hub"
              => lock = t /\ lock' = t
         /\ Makes(t, {"start"}) /\ is_running(Target(pc[t][1]))
              => bots' = bots /\ hub' = hub
         /\ Makes(t, {"restart"}) /\ pc[t][1].on # "hub"
              => bots'[pc[t][1].on] \in
                   { restart(stop(bots[pc[t][1].on]), spawned) :
                       spawned \in BOOLEAN }]_vars

\* the listener holds the lock and is about to start a bot, while the main
\* task waits for the lock with a call on the bots to make
C29_Witness ==
  /\ lock = "listener"
  /\ Pending("listener", {"start", "restart"})
  /\ Pending("main", {"lock"})
  /\ \E c \in Channels : is_running(bots[c])


\* the calls start_all and stop_all have made for the command in hand
Made == res[1]

\* call number j of Made comes after the call `call` on `on`
After(j, call, on) ==
  \E i \in 1..(j - 1) : Made[i].call = call /\ Made[i].on = on

(* C30: with the hub enabled, start_all has made its start call on the     *)
(* hub before any start call on a bot, stop_all has made its stop call on  *)
(* every bot before its stop call on the hub, and a command that stops     *)
(* and starts (restart-all) has stopped the bots and then the hub before   *)
(* it starts the hub and then the bots.                                    *)
C30_Ordering ==
  hub # None =>
    \A j \in 1..Len(Made) :
      /\ Made[j].call = "start" /\ Made[j].on # "hub"
           => After(j, "start", "hub")
      /\ Made[j].call = "stop" /\ Made[j].on = "hub"
           => \A c \in Channels : After(j, "stop", c)
      /\ Made[j].call = "stop"
           => \A i \in 1..(j - 1) : Made[i].call = "stop"
      /\ Made[j].call = "start" /\ Made[1].call = "stop"
           => After(j, "stop", "hub")

\* restart-all has made all its calls
C30_Witness ==
  /\ hub # None
  /\ interactive
  /\ Len(Made) = 2 * (Cardinality(Channels) + 1)
  /\ Made[1].call = "stop"
  /\ Made[Len(Made)].call = "start"


\* a restart has been made on the process: before and after the step
Restarted(before, after) ==
  /\ is_running(after) <=> after.restart_count = before.restart_count + 1
  /\ ~is_running(after) => after.process = stop(before).process
  /\ after.restart_count \in {before.restart_count,
                               before.restart_count + 1}
  /\ after.strays = before.strays

(* C27: in daemon mode a check call of the health-check pass leaves a      *)
(* running process alone and makes a restart on one that is not running,   *)
(* whatever stopped it; a restart adds one to restart_count exactly when   *)
(* its start has spawned the child; and a process that is not running is   *)
(* running again later, unless the running flag has become false.          *)
C27_HealthCheck ==
  /\ [][\A t \in Tasks :
         /\ Makes(t, {"check"}) /\ pc[t][1].on # "hub"
              => IF is_running(bots[pc[t][1].on])
                 THEN bots' = bots
                 ELSE Restarted(bots[pc[t][1].on], bots'[pc[t][1].on])
         /\ Makes(t, {"check"}) /\ pc[t][1].on = "hub"
              => IF is_running(hub[1])
                 THEN hub' = hub
                 ELSE Restarted(hub[1], hub'[1])
         /\ Makes(t, {"restart"}) /\ pc[t][1].on # "hub"
              => Restarted(bots[pc[t][1].on], bots'[pc[t][1].on])
         /\ Makes(t, {"restart"}) /\ pc[t][1].on = "hub"
              => Restarted(hub[1], hub'[1])]_vars
  /\ \A c \in Channels :
       (~interactive /\ ~is_running(bots[c]))
         ~> (is_running(bots[c]) \/ ~running)
  /\ (~interactive /\ hub # None /\ ~is_running(hub[1]))
       ~> ((hub # None /\ is_running(hub[1])) \/ ~running)

\* in daemon mode the hub, which only the health check restarts, and a
\* bot have been restarted and are running, the flag still true
C27_Witness ==
  /\ ~interactive
  /\ running
  /\ hub # None
  /\ hub[1].restart_count = 1
  /\ is_running(hub[1])
  /\ \E c \in Channels : bots[c].restart_count = 1 /\ is_running(bots[c])

\* no child of the supervisor is running
NoChild ==
  /\ \A c \in Channels : ~is_running(bots[c]) /\ bots[c].strays = 0
  /\ hub # None => ~is_running(hub[1]) /\ hub[1].strays = 0

(* C28: once the running flag is false, the supervisor later has returned  *)
(* from run, having left its loop and run stop_all, with no bot and no     *)
(* hub process running, in daemon mode and in interactive mode, whether    *)
(* or not the operator enters another line.                                *)
C28_ShutsDown == ~running ~> (pc.main = <<>> /\ NoChild)


===========================================================================
